---- MODULE Spec2Model ----
(***************************************************************************)
(* A model of the core of specio: the Reader state machine                 *)
(* (specio/core/format.py, Format.Reader), the format registry             *)
(* (specio/core/format.py, FormatManager) and the multi-file reconciler    *)
(* (specio/core/functions.py, _zip_spectrum).                              *)
(*                                                                         *)
(* Python values are encoded as follows.                                   *)
(*   - a str is a sequence of one-character strings;                       *)
(*   - an index is a record [isNone, v]: None or the integer v;            *)
(*   - an exception is the name of its class;                              *)
(*   - a Format object is its identity, a number of FormatIds, and its     *)
(*     attributes are looked up in FormatObjs.                             *)
(***************************************************************************)
EXTENDS Integers, Sequences, FiniteSets, TLC

VARIABLES
    \* ---- Format.Reader (one reader over one request) ----
    closed,          \* Reader.__closed
    last_index,      \* Reader._BaseReader_last_index
    length,          \* what the format's _get_length() returns
    scope,           \* "out" | "in": position of the caller w.r.t. a with-block
    it,              \* the generator returned by iter_data()
    hookCalls,       \* number of calls of the format hook _close()
    finishCalls,     \* number of executions of Request.finish()
    last,            \* the last Reader operation: name, argument, outcome
    \* ---- FormatManager ----
    formats,         \* FormatManager._formats
    formats_sorted,  \* FormatManager._formats_sorted
    rlast,           \* the last registry operation: name, arguments, outcome
    \* ---- _zip_spectrum ----
    zin,             \* the list handed to _zip_spectrum
    ztol,            \* tol_wavelength
    zout,            \* what the call produced ("pending" before the call)
    \* ---- one call of a function of the library ----
    call,            \* the function, its arguments, its outcome
    \* ---- Request ----
    request,         \* the attributes of the Request instance
    files,           \* the file objects: those of the caller and those opened
    qlast,           \* the last Request operation: name, outcome
    \* ---- the decoders of the FSM and SP formats ----
    dec              \* one call of _read_fsm or _read_sp: its locals, its outcome

readerVars   == <<closed, last_index, length, scope, it, hookCalls, finishCalls, last>>
registryVars == <<formats, formats_sorted, rlast>>
zipVars      == <<zin, ztol, zout>>
callVars     == <<call>>
requestVars  == <<request, files, qlast>>
decVars      == <<dec>>
vars         == <<readerVars, registryVars, zipVars, callVars, requestVars, decVars>>

-----------------------------------------------------------------------------
(* Bounds of the model.                                                    *)

\* the largest length a reader reports
MaxLen == 3
\* the largest index a caller passes, and the cap of the cursor
MaxIndex == 4
\* the largest number of formats registered at once
MaxRegistered == 3
\* the largest number of names passed to sort
MaxSortNames == 1
\* the largest registry in which formats are looked up
MaxLookupFormats == 3
\* the largest number of names of the sort that ordered that registry
MaxLookupSortNames == 1
\* the largest number of names of one sort call on that registry
MaxPrefNames == 2
\* the largest number of pieces after the preamble of a decoded file
MaxPieces == 3
\* the largest number of files whose results are reconciled
MaxInputs == 2
\* the largest length of a coordinate axis
MaxAxisLen == 2
\* the largest number of records that one file yields as a list
MaxListLen == 2
\* the largest number of uris in the list given to specread
MaxUris == 2
\* the largest number of bytes of a resource
MaxBytes == 3
\* the N of _read_first_bytes and read_n_bytes: 256 in the code, here a
\* number of bytes that the resources of the model can exceed
FirstBytesN == 2
\* the largest number of file objects in the life of a Request
MaxFiles == 3
\* the largest size of a dimension of the arrays given to Spectrum
MaxDim == 2
\* the largest number of rows of the 2-D amplitudes that a reader holds
MaxRows == 2

-----------------------------------------------------------------------------
(* Python values.                                                          *)

None == [isNone |-> TRUE, v |-> 0]

Idx(i) == [isNone |-> FALSE, v |-> i]

NoData == [has |-> FALSE, idx |-> None]

Data(index) == [has |-> TRUE, idx |-> index]

\* The record of one Reader operation; excValue is the exception value that
\* __exit__ received ("-" for every other operation).
Op(name, arg, result, value) ==
    [op |-> name, arg |-> arg, result |-> result, value |-> value, excValue |-> "-"]

-----------------------------------------------------------------------------
(* Format.Reader                                                           *)

\* The attributes a Request object has (request.py defines no _finish).
RequestAttrs ==
    {"filename", "mode", "kwargs", "get_file", "get_local_filename",
     "finish", "get_result", "firstbytes", "_read_first_bytes"}

\* What a format's _get_data(index) can do: return the item or raise.
GetDataOutcomes == {"ok", "IndexError", "CannotReadSpectraError", "ValueError"}

\* What a format's _close() can do.
CloseHookOutcomes == {"return", "raise"}

\* A generator that iter_data() has not produced yet.
NoIterator ==
    [state |-> "none", i |-> 0, n |-> 0, yielded |-> << >>, warned |-> 0,
     exc |-> "none", failedAt |-> -1, failKind |-> "none", openAtStart |-> FALSE]

InitReader ==
    /\ closed = FALSE
    /\ last_index = Idx(-1)
    /\ length \in 0..MaxLen
    /\ scope = "out"
    /\ it = NoIterator
    /\ hookCalls = 0
    /\ finishCalls = 0
    /\ last = Op("__init__", None, "ok", NoData)

IdleReader ==
    /\ closed = FALSE
    /\ last_index = Idx(-1)
    /\ length = 0
    /\ scope = "out"
    /\ it = NoIterator
    /\ hookCalls = 0
    /\ finishCalls = 0
    /\ last = Op("__init__", None, "ok", NoData)

\* _checkClosed(): the exception it raises, or "ok".
CheckClosed(isClosed) == IF isClosed THEN "RuntimeError" ELSE "ok"

\* get_data(index) with the outcome `out` of the format's _get_data:
\* the pair of the new cursor and the outcome of the call.
GetDataCall(isClosed, cursor, index, out) ==
    IF CheckClosed(isClosed) # "ok"
    THEN [cursor |-> cursor, result |-> CheckClosed(isClosed), value |-> NoData]
    ELSE [cursor |-> index,
          result |-> out,
          value  |-> IF out = "ok" THEN Data(index) ELSE NoData]

\* get_next_data(): the argument expression self._BaseReader_last_index + 1
\* is evaluated before get_data is entered; None + 1 is a TypeError.
GetNextDataCall(isClosed, cursor, out) ==
    IF cursor.isNone
    THEN [cursor |-> cursor, result |-> "TypeError", value |-> NoData]
    ELSE GetDataCall(isClosed, cursor, Idx(cursor.v + 1), out)

\* get_meta_data(index)
GetMetaDataCall(isClosed, index) ==
    IF CheckClosed(isClosed) # "ok"
    THEN [result |-> CheckClosed(isClosed), value |-> NoData]
    ELSE [result |-> "ok", value |-> Data(index)]

Indices == {None} \cup {Idx(i) : i \in -1..MaxIndex}

get_data(index, out) ==
    LET r == GetDataCall(closed, last_index, index, out) IN
    /\ last_index' = r.cursor
    /\ last' = Op("get_data", index, r.result, r.value)
    /\ UNCHANGED <<closed, length, scope, it, hookCalls, finishCalls,
                   registryVars, zipVars, callVars, requestVars, decVars>>

get_next_data(out) ==
    LET r == GetNextDataCall(closed, last_index, out) IN
    /\ last_index.isNone \/ last_index.v < MaxIndex
    /\ last_index' = r.cursor
    /\ last' = Op("get_next_data", last_index, r.result, r.value)
    /\ UNCHANGED <<closed, length, scope, it, hookCalls, finishCalls,
                   registryVars, zipVars, callVars, requestVars, decVars>>

get_meta_data(index) ==
    LET r == GetMetaDataCall(closed, index) IN
    /\ last' = Op("get_meta_data", index, r.result, r.value)
    /\ UNCHANGED <<closed, last_index, length, scope, it, hookCalls, finishCalls,
                   registryVars, zipVars, callVars, requestVars, decVars>>

\* close() with the outcome `hook` of the format's _close(): the new values
\* of __closed, of the two call counters, and the exception raised, if any.
CloseCall(isClosed, hooks, finishes, hook) ==
    IF isClosed
    THEN [closed |-> isClosed, hooks |-> hooks, finishes |-> finishes, result |-> "ok"]
    ELSE IF hook = "raise"
    THEN [closed |-> TRUE, hooks |-> hooks + 1, finishes |-> finishes,
          result |-> "HookError"]
    ELSE IF "_finish" \in RequestAttrs
    THEN [closed |-> TRUE, hooks |-> hooks + 1, finishes |-> finishes + 1,
          result |-> "ok"]
    ELSE [closed |-> TRUE, hooks |-> hooks + 1, finishes |-> finishes,
          result |-> "AttributeError"]

close(hook) ==
    LET r == CloseCall(closed, hookCalls, finishCalls, hook) IN
    /\ closed' = r.closed
    /\ hookCalls' = r.hooks
    /\ finishCalls' = r.finishes
    /\ last' = Op("close", None, r.result, NoData)
    /\ UNCHANGED <<last_index, length, scope, it,
                   registryVars, zipVars, callVars, requestVars, decVars>>

\* __enter__(): the caller enters the with-block unless the reader is closed.
enter ==
    /\ scope = "out"
    /\ scope' = IF CheckClosed(closed) = "ok" THEN "in" ELSE "out"
    /\ last' = Op("__enter__", None, CheckClosed(closed), NoData)
    /\ UNCHANGED <<closed, last_index, length, it, hookCalls, finishCalls,
                   registryVars, zipVars, callVars, requestVars, decVars>>

ExitCallsCloseMut(value) == value # "None"

\* __exit__(type, value, traceback): does it call close()?
ExitCallsClose(value) == value = "None"

\* The with-block is left, normally (value = "None") or by an exception
\* raised in its body (value = "Exception").
exit(value, hook) ==
    LET r == IF ExitCallsClose(value)
             THEN CloseCall(closed, hookCalls, finishCalls, hook)
             ELSE [closed |-> closed, hooks |-> hookCalls, finishes |-> finishCalls,
                   result |-> "ok"]
    IN
    /\ scope = "in"
    /\ scope' = "out"
    /\ closed' = r.closed
    /\ hookCalls' = r.hooks
    /\ finishCalls' = r.finishes
    /\ last' = [Op("__exit__", None, r.result, NoData) EXCEPT !.excValue = value]
    /\ UNCHANGED <<last_index, length, it,
                   registryVars, zipVars, callVars, requestVars, decVars>>

\* iter_data(): calling it only creates the generator; its body, _checkClosed
\* included, runs at the first next().
iter_data ==
    /\ it' = [NoIterator EXCEPT !.state = "created"]
    /\ last' = Op("iter_data", None, "ok", NoData)
    /\ UNCHANGED <<closed, last_index, length, scope, hookCalls, finishCalls,
                   registryVars, zipVars, callVars, requestVars, decVars>>

\* The exceptions iter_data catches around _get_data(i).
IterCaught == {"IndexError", "CannotReadSpectraError"}

IsLastFrameMut(n, i) == n - i >= 1

\* The test `n - i == 1` of the except clause.
IsLastFrame(n, i) == n - i = 1

\* The while loop of iter_data at index i: the generator after it has run up
\* to its next yield, return or raise; `out` is the outcome of _get_data(i).
IterLoop(g, i, out) ==
    IF ~(i < g.n)
    THEN [g EXCEPT !.state = "done", !.i = i]
    ELSE IF out = "ok"
    THEN [g EXCEPT !.state = "suspended", !.i = i, !.yielded = Append(@, i)]
    ELSE IF out \in IterCaught /\ IsLastFrame(g.n, i)
    THEN [g EXCEPT !.state = "done", !.i = i, !.warned = @ + 1, !.failedAt = i,
                   !.failKind = out]
    ELSE [g EXCEPT !.state = "done", !.i = i, !.exc = out, !.failedAt = i,
                   !.failKind = out]

\* next(generator): from the start of the body, or from the last yield.
IterNext(g, isClosed, len, out) ==
    IF g.state = "created"
    THEN IF CheckClosed(isClosed) # "ok"
         THEN [g EXCEPT !.state = "done", !.exc = CheckClosed(isClosed)]
         ELSE IterLoop([g EXCEPT !.n = len, !.openAtStart = TRUE], 0, out)
    ELSE IterLoop(g, g.i + 1, out)

next(out) ==
    LET g == IterNext(it, closed, length, out) IN
    /\ it.state \in {"created", "suspended"}
    /\ it' = g
    /\ last' = Op("next", None,
                  IF g.state = "suspended" THEN "ok"
                  ELSE IF g.exc = "none" THEN "StopIteration" ELSE g.exc,
                  IF g.state = "suspended" THEN Data(Idx(g.i)) ELSE NoData)
    /\ UNCHANGED <<closed, last_index, length, scope, hookCalls, finishCalls,
                   registryVars, zipVars, callVars, requestVars, decVars>>

NextReader ==
    \/ \E index \in Indices, out \in GetDataOutcomes : get_data(index, out)
    \/ \E out \in GetDataOutcomes : get_next_data(out)
    \/ \E index \in Indices : get_meta_data(index)
    \/ \E hook \in CloseHookOutcomes : close(hook)
    \/ enter
    \/ \E value \in {"None", "Exception"}, hook \in CloseHookOutcomes : exit(value, hook)
    \/ iter_data
    \/ \E out \in GetDataOutcomes : next(out)

-----------------------------------------------------------------------------
(* FormatManager                                                           *)

\* ---- str methods, on sequences of characters ----

UpperChar(c) == CASE c = "a" -> "A" [] c = "b" -> "B" [] OTHER -> c

LowerChar(c) == CASE c = "A" -> "a" [] c = "B" -> "b" [] OTHER -> c

\* str.upper()
Upper(s) == [k \in 1..Len(s) |-> UpperChar(s[k])]

\* str.lower()
Lower(s) == [k \in 1..Len(s) |-> LowerChar(s[k])]

\* str.endswith(suffix)
EndsWith(s, suffix) ==
    /\ Len(suffix) <= Len(s)
    /\ SubSeq(s, Len(s) - Len(suffix) + 1, Len(s)) = suffix

\* c in s
HasChar(s, c) == \E k \in 1..Len(s) : s[k] = c

\* str.strip(chars): leading and trailing characters of `chars` removed
RECURSIVE LStrip(_, _)
LStrip(s, chars) ==
    IF s # << >> /\ Head(s) \in chars THEN LStrip(Tail(s), chars) ELSE s

RECURSIVE RStrip(_, _)
RStrip(s, chars) ==
    IF s # << >> /\ s[Len(s)] \in chars
    THEN RStrip(SubSeq(s, 1, Len(s) - 1), chars)
    ELSE s

Strip(s, chars) == RStrip(LStrip(s, chars), chars)

\* str.rfind(c): the last position of c in s (1-based), 0 when absent
RFind(s, c) ==
    IF HasChar(s, c) THEN CHOOSE k \in 1..Len(s) :
                              s[k] = c /\ \A j \in (k + 1)..Len(s) : s[j] # c
    ELSE 0

\* os.path.splitext(p): the extension starts at the last dot that follows
\* the last separator, unless only dots precede it in the file name.
SplitExt(p) ==
    LET sep == RFind(p, "/")
        dot == RFind(p, ".")
    IN  IF dot > sep /\ \E k \in (sep + 1)..(dot - 1) : p[k] # "."
        THEN <<SubSeq(p, 1, dot - 1), SubSeq(p, dot, Len(p))>>
        ELSE <<p, << >> >>

\* name.rsplit('-', 1)[0]: what precedes the last '-', or the whole name
RSplitDash(name) ==
    IF HasChar(name, "-") THEN SubSeq(name, 1, RFind(name, "-") - 1) ELSE name

\* os.path.abspath(name) of a relative name: a directory prefix is put in
\* front; only its final separator matters to suffix tests.
AbsPath(name) == <<"/">> \o name

\* ---- Format objects ----

\* Format.__init__(name, description, extensions) with a list of extensions
FormatInit(name, extensions) ==
    [name |-> Upper(name),
     extensions |-> [k \in 1..Len(SelectSeq(extensions, LAMBDA e : e # << >>)) |->
                        <<".">> \o Lower(Strip(
                            SelectSeq(extensions, LAMBDA e : e # << >>)[k], {"."}))]]

\* The Format instances of the model; a Format is handled by its identity.
FormatObjs ==
    <<FormatInit(<<"a">>, << <<"a">> >>),
      FormatInit(<<"A">>, << <<".", "b">> >>),
      FormatInit(<<"a", "-", "b">>, << <<"a">>, <<"b">> >>),
      FormatInit(<<"a", ".", "b">>, << >>),
      FormatInit(<<"A", ".", "B">>, << <<"a">> >>),
      FormatInit(<<"b">>, << <<"b">> >>)>>

FormatIds == DOMAIN FormatObjs

\* format.name
NameOf(f) == FormatObjs[f].name

\* s.endswith(format.extensions): a tuple of suffixes
EndsWithAny(s, extensions) ==
    \E k \in 1..Len(extensions) : EndsWith(s, extensions[k])

\* x in tuple_or_list
In(x, seq) == \E k \in 1..Len(seq) : seq[k] = x

\* list.remove(x): the first occurrence is removed
Remove(seq, x) ==
    LET k == CHOOSE k \in 1..Len(seq) : seq[k] = x /\ \A j \in 1..(k - 1) : seq[j] # x
    IN  SubSeq(seq, 1, k - 1) \o SubSeq(seq, k + 1, Len(seq))

\* ---- the file system and the requests ----

\* The relative paths for which os.path.isfile is true.
ExistingFiles == { <<"a", ".", "a">>, <<"b">>, <<".", "a">> }

\* What a format's can_read(request) can do: return a true or a false value
\* (None included), or raise VersionError.
CanReadOutcomes == {"True", "False", "VersionError"}

\* No descriptor at all: the None that search_read_format returns.
NoFormat == 0

\* ---- FormatManager.search_read_format ----

\* `for format in seq: if format.can_read(request): return format`, with the
\* can_read outcomes cr; probes is the log of the can_read calls made so far.
RECURSIVE ProbeLoopMut(_, _, _)
ProbeLoopMut(seq, cr, probes) ==
    IF seq = << >>
    THEN [result |-> NoFormat, exc |-> "none", probes |-> probes]
    ELSE LET f == Head(seq)
             log == Append(probes, [id |-> f, out |-> cr[f]])
         IN  IF cr[f] = "True" THEN [result |-> f, exc |-> "none", probes |-> log]
             ELSE ProbeLoopMut(Tail(seq), cr, log)

RECURSIVE ProbeLoop(_, _, _)
ProbeLoop(seq, cr, probes) ==
    IF seq = << >>
    THEN [result |-> NoFormat, exc |-> "none", probes |-> probes]
    ELSE LET f == Head(seq)
             log == Append(probes, [id |-> f, out |-> cr[f]])
         IN  CASE cr[f] = "True" -> [result |-> f, exc |-> "none", probes |-> log]
               [] cr[f] = "VersionError" ->
                     [result |-> NoFormat, exc |-> "VersionError", probes |-> log]
               [] OTHER -> ProbeLoop(Tail(seq), cr, log)

Reverse(seq) == [k \in 1..Len(seq) |-> seq[Len(seq) + 1 - k]]

SelectedFormatsMut(order, filename) ==
    Reverse(SelectSeq(order,
                      LAMBDA f : EndsWithAny(Lower(filename), FormatObjs[f].extensions)))

\* The formats of the iteration order `order` whose extensions end the
\* lower-cased file name.
SelectedFormats(order, filename) ==
    SelectSeq(order, LAMBDA f : EndsWithAny(Lower(filename), FormatObjs[f].extensions))

SearchReadFormatMut(order, filename, cr) ==
    LET selected == SelectedFormats(order, filename)
        first == ProbeLoop(selected, cr, << >>)
    IN  IF first.result # NoFormat \/ first.exc # "none"
        THEN first
        ELSE ProbeLoop(order, cr, first.probes)

\* search_read_format(request): iteration over self is over _formats_sorted.
SearchReadFormat(order, filename, cr) ==
    LET selected == SelectedFormats(order, filename)
        first == ProbeLoop(selected, cr, << >>)
    IN  IF first.result # NoFormat \/ first.exc # "none"
        THEN first
        ELSE ProbeLoop(SelectSeq(order, LAMBDA f : ~In(f, selected)), cr, first.probes)

\* ---- FormatManager.__getitem__ ----

PyStr(s) == [t |-> "str", s |-> s]

\* An argument that is not a str (the 678 and the 3 of the tests).
PyInt == [t |-> "int", s |-> << >>]

Return(f, probes) == [kind |-> "return", fmt |-> f, exc |-> "none", probes |-> probes]

Raise(exc, probes) == [kind |-> "raise", fmt |-> NoFormat, exc |-> exc, probes |-> probes]

\* `for format in self: if test(format): return format`: the first format
\* of the iteration order that passes the test, or NoFormat.
FirstThat(order, Test(_)) ==
    IF SelectSeq(order, Test) = << >> THEN NoFormat ELSE Head(SelectSeq(order, Test))

ByExtensionMut(order, s, probes) ==
    LET ext == IF SplitExt(Lower(s))[2] # << >>
               THEN SplitExt(Lower(s))[2] ELSE SplitExt(Lower(s))[1]
        f == FirstThat(Reverse(order), LAMBDA g : In(ext, FormatObjs[g].extensions))
    IN  IF f # NoFormat THEN Return(f, probes) ELSE Raise("IndexError", probes)

\* The branch `if '.' in name` of __getitem__.
ByExtension(order, s, probes) ==
    LET ext == IF SplitExt(Lower(s))[2] # << >>
               THEN SplitExt(Lower(s))[2] ELSE SplitExt(Lower(s))[1]
        f == FirstThat(order, LAMBDA g : In(ext, FormatObjs[g].extensions))
    IN  IF f # NoFormat THEN Return(f, probes) ELSE Raise("IndexError", probes)

\* formats[name].  cr gives the can_read outcomes for the existing file that
\* the lookup probes (in the modelled file system a lookup probes at most one).
RECURSIVE GetItem(_, _, _, _)
GetItem(order, name, cr, probes) ==
    IF name.t # "str" THEN Raise("ValueError", probes)
    ELSE IF name.s = << >> THEN Raise("ValueError", probes)
    ELSE
      LET found == IF name.s \in ExistingFiles
                   THEN SearchReadFormat(order, AbsPath(name.s), cr)
                   ELSE [result |-> NoFormat, exc |-> "none", probes |-> << >>]
          log == probes \o found.probes
      IN  IF found.exc # "none" THEN Raise(found.exc, log)
          ELSE IF found.result # NoFormat THEN Return(found.result, log)
          ELSE IF HasChar(name.s, ".") THEN ByExtension(order, name.s, log)
          ELSE
            LET upper == Upper(name.s)
                exact == FirstThat(order, LAMBDA g : upper = NameOf(g))
                family == FirstThat(order, LAMBDA g : upper = RSplitDash(NameOf(g)))
            IN  IF exact # NoFormat THEN Return(exact, log)
                ELSE IF family # NoFormat THEN Return(family, log)
                ELSE GetItem(order, PyStr(<<".">> \o Lower(upper)), cr, log)

\* ---- FormatManager.sort ----

\* The key of the sort: -((f.name == name) + f.name.endswith(name)).
SortKey(f, name) ==
    - ((IF NameOf(f) = name THEN 1 ELSE 0) + (IF EndsWith(NameOf(f), name) THEN 1 ELSE 0))

\* list.sort(key=...) for one name: stable, the keys are -2, -1 and 0.
SortByName(seq, name) ==
    SelectSeq(seq, LAMBDA f : SortKey(f, name) = -2)
        \o SelectSeq(seq, LAMBDA f : SortKey(f, name) = -1)
        \o SelectSeq(seq, LAMBDA f : SortKey(f, name) = 0)

RECURSIVE SortByNamesMut(_, _)
SortByNamesMut(seq, names) ==
    IF names = << >> THEN seq
    ELSE SortByNamesMut(SortByName(seq, Head(names)), Tail(names))

\* `for name in reversed(names): self._formats_sorted.sort(...)`
RECURSIVE SortByNames(_, _)
SortByNames(seq, names) ==
    IF names = << >> THEN seq
    ELSE SortByNames(SortByName(seq, names[Len(names)]), SubSeq(names, 1, Len(names) - 1))

\* The check of the arguments of sort: the exception of the first bad name.
RECURSIVE SortCheck(_)
SortCheck(names) ==
    IF names = << >> THEN "none"
    ELSE IF Head(names).t # "str" THEN "TypeError"
    ELSE IF HasChar(Head(names).s, ".") \/ HasChar(Head(names).s, ",") THEN "ValueError"
    ELSE SortCheck(Tail(names))

SortCallMut(base, sorted, names) ==
    IF SortCheck(names) # "none"
    THEN [exc |-> SortCheck(names), formats |-> base, formats_sorted |-> base]
    ELSE [exc |-> "none", formats |-> base,
          formats_sorted |->
              SortByNames(base, [k \in 1..Len(names) |-> Upper(Strip(names[k].s, {" "}))])]

\* sort(*names): the exception raised and the two lists after the call.
SortCall(base, sorted, names) ==
    IF SortCheck(names) # "none"
    THEN [exc |-> SortCheck(names), formats |-> base, formats_sorted |-> sorted]
    ELSE [exc |-> "none", formats |-> base,
          formats_sorted |->
              SortByNames(base, [k \in 1..Len(names) |-> Upper(Strip(names[k].s, {" "}))])]

\* ---- FormatManager.add_format ----

PyFormat(f) == [t |-> "Format", id |-> f]

\* An argument that is not a Format instance.
NotAFormat == [t |-> "int", id |-> NoFormat]

\* get_format_names(): the names, in the iteration order of self
GetFormatNames(sorted) == [k \in 1..Len(sorted) |-> NameOf(sorted[k])]

AddFormatMut(base, sorted, format, overwrite, cr) ==
    LET unchanged(exc) == [exc |-> exc, formats |-> base, formats_sorted |-> sorted]
    IN
    IF format.t # "Format" THEN unchanged("ValueError")
    ELSE IF In(format.id, base) THEN unchanged("ValueError")
    ELSE IF In(NameOf(format.id), GetFormatNames(sorted))
    THEN IF overwrite
         THEN LET old == GetItem(sorted, PyStr(NameOf(format.id)), cr, << >>)
              IN  IF old.kind = "raise" THEN unchanged(old.exc)
                  ELSE IF ~In(old.fmt, base) THEN unchanged("ValueError")
                  ELSE [exc |-> "none",
                        formats |-> Append(Remove(base, old.fmt), format.id),
                        formats_sorted |-> Append(sorted, format.id)]
         ELSE unchanged("ValueError")
    ELSE [exc |-> "none",
          formats |-> Append(base, format.id),
          formats_sorted |-> Append(sorted, format.id)]

\* add_format(format, overwrite): the exception raised and the two lists
\* after the call.
AddFormat(base, sorted, format, overwrite, cr) ==
    LET unchanged(exc) == [exc |-> exc, formats |-> base, formats_sorted |-> sorted]
    IN
    IF format.t # "Format" THEN unchanged("ValueError")
    ELSE IF In(format.id, base) THEN unchanged("ValueError")
    ELSE IF In(NameOf(format.id), GetFormatNames(sorted))
    THEN IF overwrite
         THEN LET old == GetItem(sorted, PyStr(NameOf(format.id)), cr, << >>)
              IN  IF old.kind = "raise" THEN unchanged(old.exc)
                  ELSE IF ~In(old.fmt, base) THEN unchanged("ValueError")
                  ELSE [exc |-> "none",
                        formats |-> Append(Remove(base, old.fmt), format.id),
                        formats_sorted |->
                            Append(IF In(old.fmt, sorted) THEN Remove(sorted, old.fmt)
                                   ELSE sorted, format.id)]
         ELSE unchanged("ValueError")
    ELSE [exc |-> "none",
          formats |-> Append(base, format.id),
          formats_sorted |-> Append(sorted, format.id)]

\* ---- the registry and the calls on it ----

\* The record of one registry call: its name, its arguments, its outcome.
ROp(op) ==
    [op |-> op, name |-> PyInt, format |-> NotAFormat, overwrite |-> FALSE,
     names |-> << >>, exc |-> "none", fmt |-> NoFormat, probes |-> << >>]

InitRegistry ==
    /\ formats = << >>
    /\ formats_sorted = << >>
    /\ rlast = ROp("__init__")

IdleRegistry ==
    /\ formats = << >>
    /\ formats_sorted = << >>
    /\ rlast = ROp("__init__")

\* The can_read outcomes a call can meet: each registered format answers in
\* any way when the call probes an existing file.
CanReadChoices(probing) ==
    LET reg == {formats[k] : k \in 1..Len(formats)} IN
    IF probing
    THEN {[f \in FormatIds |-> IF f \in reg THEN g[f] ELSE "False"] :
             g \in [reg -> CanReadOutcomes]}
    ELSE {[f \in FormatIds |-> "False"]}

\* Does formats[name] open a request on an existing file?
Probing(name) ==
    /\ name.t = "str"
    /\ \/ name.s \in ExistingFiles
       \/ (<<".">> \o Lower(name.s)) \in ExistingFiles

add_format(format, overwrite, cr) ==
    LET r == AddFormat(formats, formats_sorted, format, overwrite, cr) IN
    /\ Len(r.formats) <= MaxRegistered
    /\ formats' = r.formats
    /\ formats_sorted' = r.formats_sorted
    /\ rlast' = [ROp("add_format") EXCEPT !.format = format, !.overwrite = overwrite,
                                          !.exc = r.exc]
    /\ UNCHANGED <<readerVars, zipVars, callVars, requestVars, decVars>>

sort(names) ==
    LET r == SortCall(formats, formats_sorted, names) IN
    /\ formats' = r.formats
    /\ formats_sorted' = r.formats_sorted
    /\ rlast' = [ROp("sort") EXCEPT !.names = names, !.exc = r.exc]
    /\ UNCHANGED <<readerVars, zipVars, callVars, requestVars, decVars>>

getitem(name, cr) ==
    LET r == GetItem(formats_sorted, name, cr, << >>) IN
    /\ rlast' = [ROp("__getitem__") EXCEPT !.name = name, !.exc = r.exc, !.fmt = r.fmt,
                                           !.probes = r.probes]
    /\ UNCHANGED <<formats, formats_sorted, readerVars, zipVars, callVars, requestVars, decVars>>

\* search_read_format(request) for a request on an existing file
search_read_format(file, cr) ==
    LET r == SearchReadFormat(formats_sorted, AbsPath(file), cr) IN
    /\ rlast' = [ROp("search_read_format") EXCEPT !.name = PyStr(file), !.exc = r.exc,
                                                  !.fmt = r.result, !.probes = r.probes]
    /\ UNCHANGED <<formats, formats_sorted, readerVars, zipVars, callVars, requestVars, decVars>>

\* The arguments the model passes to add_format, sort and __getitem__.
AddArgs == {PyFormat(f) : f \in FormatIds} \cup {NotAFormat}

SortNames ==
    {PyStr(<<"b">>), PyStr(<<" ", "a">>), PyStr(<<"a", ".", "b">>),
     PyStr(<<"a", ",", "b">>), PyInt}

RECURSIVE Tuples(_, _)
Tuples(S, n) ==
    IF n = 0 THEN { << >> }
    ELSE Tuples(S, n - 1) \cup {Append(t, x) : t \in Tuples(S, n - 1), x \in S}

LookupNames ==
    {PyInt, PyStr(<< >>),
     PyStr(<<"a", ".", "a">>), PyStr(<<"b">>), PyStr(<<"a">>), PyStr(<<"A", "-", "b">>),
     PyStr(<<".", "b">>), PyStr(<<"b", ".", "B">>), PyStr(<<"a", ".", "b">>),
     PyStr(<<"a", "-">>)}

NextRegistry ==
    \/ \E format \in AddArgs, overwrite \in BOOLEAN :
          \E cr \in CanReadChoices(format.t = "Format" /\ NameOf(format.id) \in ExistingFiles) :
             add_format(format, overwrite, cr)
    \/ \E names \in Tuples(SortNames, MaxSortNames) : sort(names)

\* ---- lookups in a registry that add_format and sort have built ----

\* Sequences without repetition of at most n elements of S.
RECURSIVE Arrangements(_, _)
Arrangements(S, n) ==
    IF n = 0 THEN { << >> }
    ELSE Arrangements(S, n - 1) \cup
         {Append(t, x) : t \in Arrangements(S, n - 1), x \in S}

Distinct(seq, Key(_)) ==
    \A j, k \in 1..Len(seq) : j # k => Key(seq[j]) # Key(seq[k])

\* The base lists that add_format calls without overwrite build.
BuiltFormats ==
    {t \in Arrangements(FormatIds, MaxLookupFormats) : Distinct(t, NameOf)}

\* The valid name tuples of the sort calls that order the registry.
BuiltOrders == Tuples({PyStr(<<"b">>), PyStr(<<"a">>)}, MaxLookupSortNames)

InitLookup ==
    /\ formats \in BuiltFormats
    /\ \E names \in BuiltOrders :
          formats_sorted = SortCall(formats, formats, names).formats_sorted
    /\ rlast = ROp("__init__")

NextLookup ==
    \/ \E name \in LookupNames : \E cr \in CanReadChoices(Probing(name)) :
          rlast.op = "__init__" /\ getitem(name, cr)
    \/ \E file \in ExistingFiles : \E cr \in CanReadChoices(TRUE) :
          rlast.op = "__init__" /\ search_read_format(file, cr)

\* ---- one sort call on a registry built beforehand ----

\* The names given to sort: names that match exactly, as a suffix or not at
\* all, in either case and with blanks around them, and names it refuses.
PrefNames ==
    {PyStr(<<"b">>), PyStr(<<"a">>), PyStr(<<"-", "b">>), PyStr(<<" ", "B">>),
     PyStr(<<"a", ".", "b">>), PyInt}

NextSort ==
    \E names \in Tuples(PrefNames, MaxPrefNames) : rlast.op = "__init__" /\ sort(names)

-----------------------------------------------------------------------------
(* _zip_spectrum                                                           *)

\* ---- numpy arrays: a shape and the elements in row-major order ----

Array1(values) == [shape |-> <<Len(values)>>, flat |-> values]

Array2(rows, width, values) == [shape |-> <<rows, width>>, flat |-> values]

NoArray == Array1(<< >>)

Abs(x) == IF x < 0 THEN -x ELSE x

\* The default rtol of np.allclose is 1e-05, that is 1 / RtolInverse.
RtolInverse == 100000

\* One element of np.isclose(a, b, rtol=1e-05, atol=atol):
\* |a - b| <= atol + rtol * |b|. All three numbers are integers here, so
\* that is |a - b| - atol <= |b| divided by 1 / rtol, rounded down.
IsClose(a, b, atol) == Abs(a - b) - atol <= Abs(b) \div RtolInverse

\* Can two 1-D shapes be broadcast together?
Broadcastable(m, n) == m = n \/ m = 1 \/ n = 1

\* np.allclose(a, b, atol=atol) for 1-D arrays: "True", "False", or the
\* "ValueError" of two shapes that cannot be broadcast together.
AllClose(a, b, atol) ==
    LET m == a.shape[1]
        n == b.shape[1]
        at(x, k) == IF x.shape[1] = 1 THEN x.flat[1] ELSE x.flat[k]
        len == IF m = 1 THEN n ELSE m
    IN  IF ~Broadcastable(m, n) THEN "ValueError"
        ELSE IF \A k \in 1..len : IsClose(at(a, k), at(b, k), atol) THEN "True"
        ELSE "False"

\* The rows and the width of an array as np.vstack sees it (atleast_2d).
Rows(a) == IF Len(a.shape) = 1 THEN 1 ELSE a.shape[1]

Width(a) == a.shape[Len(a.shape)]

RECURSIVE ConcatFlat(_)
ConcatFlat(arrays) ==
    IF arrays = << >> THEN << >> ELSE Head(arrays).flat \o ConcatFlat(Tail(arrays))

RECURSIVE SumRows(_)
SumRows(arrays) ==
    IF arrays = << >> THEN 0 ELSE Rows(Head(arrays)) + SumRows(Tail(arrays))

\* np.vstack(arrays): the rows of all arrays, one below the other, or the
\* ValueError of rows of different widths.
VStack(arrays) ==
    IF \E k \in 1..Len(arrays) : Width(arrays[k]) # Width(arrays[1])
    THEN [exc |-> "ValueError", array |-> NoArray]
    ELSE [exc |-> "none",
          array |-> Array2(SumRows(arrays), Width(arrays[1]), ConcatFlat(arrays))]

\* ---- Spectrum ----

\* A dict of meta data, known by the file it describes; MetaDict(0) is {}.
MetaDict(id) == [t |-> "dict", id |-> id, items |-> << >>]

\* A tuple of meta data dicts.
TupleOf(items) == [t |-> "tuple", id |-> 0, items |-> items]

PyNone == [t |-> "None", id |-> 0, items |-> << >>]

\* The attributes that Spectrum.__init__ sets on the instance.
SpectrumAttrs == {"spectrum", "wavelength", "meta"}

\* A Python object of _zip_spectrum: a Spectrum instance or a list of them.
Object(cls, spectrum, wavelength, meta, items) ==
    [cls |-> cls, spectrum |-> spectrum, wavelength |-> wavelength, meta |-> meta,
     items |-> items]

List(items) == Object("list", NoArray, NoArray, PyNone, items)

\* A 1-D array of arrays (dtype object): the shapes of its elements.
ObjectArray(elems) == [shape |-> <<Len(elems)>>, flat |-> << >>, elems |-> elems]

\* The shape of element k of a 1-D array: () for a number.
ElemShape(a, k) == IF "elems" \in DOMAIN a THEN a.elems[k] ELSE << >>

\* isinstance(x, np.ndarray)
IsArray(x) == "shape" \in DOMAIN x

ValidSpectrumWavelengthMut(spectrum, wavelength) ==
    Len(wavelength.shape) \in {1, 2} /\ Len(spectrum.shape) \in {1, 2}

\* Spectrum._validate_spectrum_wavelength: does it accept the two arrays?
ValidSpectrumWavelength(spectrum, wavelength) ==
    CASE Len(wavelength.shape) = 1 /\ Len(spectrum.shape) = 2 ->
            wavelength.shape[1] = spectrum.shape[2]
      [] Len(wavelength.shape) = 2 /\ Len(spectrum.shape) = 2 ->
            wavelength.shape = spectrum.shape
      [] Len(wavelength.shape) = 1 /\ Len(spectrum.shape) = 1 ->
            /\ wavelength.shape = spectrum.shape
            /\ \A k \in 1..wavelength.shape[1] :
                  ElemShape(wavelength, k) = ElemShape(spectrum, k)
      [] OTHER -> FALSE

\* Spectrum(spectrum, wavelength, meta): the instance, or the ValueError.
SpectrumInit(spectrum, wavelength, meta) ==
    IF ~IsArray(spectrum) \/ ~IsArray(wavelength)
    THEN [exc |-> "ValueError", obj |-> List(<< >>)]
    ELSE IF ~(meta.t = "None" \/ meta.t = "dict")
    THEN [exc |-> "ValueError", obj |-> List(<< >>)]
    ELSE IF ~ValidSpectrumWavelength(spectrum, wavelength)
    THEN [exc |-> "ValueError", obj |-> List(<< >>)]
    ELSE [exc |-> "none",
          obj |-> Object("Spectrum", spectrum, wavelength,
                         IF meta.t = "None" THEN MetaDict(0) ELSE meta, << >>)]

\* ---- _zip_spectrum ----

ZipReturn(kind, obj) == [kind |-> kind, exc |-> "none", obj |-> obj]

ZipRaise(exc) == [kind |-> "raise", exc |-> exc, obj |-> List(<< >>)]

ChainMut(spectrum) == spectrum

\* The else branch: the lists are chained with the other entries.
RECURSIVE Chain(_)
Chain(spectrum) ==
    IF spectrum = << >> THEN << >>
    ELSE (IF Head(spectrum).cls = "list" THEN Head(spectrum).items ELSE <<Head(spectrum)>>)
         \o Chain(Tail(spectrum))

\* The branch that stacks the spectra: sp.amplitudes and sp.meta are read
\* from each instance, then the merged Spectrum is built.
Stack(spectrum, wavelength) ==
    IF "amplitudes" \notin SpectrumAttrs
    THEN ZipRaise("AttributeError")
    ELSE LET stacked == VStack([k \in 1..Len(spectrum) |-> spectrum[k]["amplitudes"]])
             merged == SpectrumInit(stacked.array, wavelength,
                                    TupleOf([k \in 1..Len(spectrum) |-> spectrum[k].meta]))
         IN  IF stacked.exc # "none" THEN ZipRaise(stacked.exc)
             ELSE IF merged.exc # "none" THEN ZipRaise(merged.exc)
             ELSE ZipReturn("Spectrum", merged.obj)

\* _zip_spectrum(spectrum, tol_wavelength)
ZipSpectrum(spectrum, tol_wavelength) ==
    IF \A k \in 1..Len(spectrum) : spectrum[k].cls = "Spectrum"
    THEN LET wavelength == spectrum[1].wavelength
             consistent == [k \in 1..Len(spectrum) |->
                               AllClose(spectrum[k].wavelength, wavelength, tol_wavelength)]
         IN  IF \E k \in 1..Len(spectrum) : consistent[k] = "ValueError"
             THEN ZipReturn("list", List(spectrum))
             ELSE IF \E k \in 1..Len(spectrum) : consistent[k] = "False"
             THEN ZipReturn("list", List(spectrum))
             ELSE Stack(spectrum, wavelength)
    ELSE ZipReturn("list", List(Chain(spectrum)))

\* ---- the inputs of the model ----

\* The coordinate values of the model, in units of the tolerance.
WaveValues == {0, 1, 200000, 200001}

Tolerances == {0, 1}

\* The 1-D coordinate axes of the model.
Axes == {Array1(t) : t \in Tuples(WaveValues, MaxAxisLen) \ { << >> }}

\* What the reader of file number `file` returns for an axis and a number of
\* dimensions of the amplitudes: the amplitudes tell the file and the column.
Amplitudes(file, ndim, width) ==
    IF ndim = 1 THEN Array1([k \in 1..width |-> 10 * file + k])
    ELSE Array2(1, width, [k \in 1..width |-> 10 * file + k])

ReadSpectrum(file, ndim, axis) ==
    SpectrumInit(Amplitudes(file, ndim, axis.shape[1]), axis, MetaDict(file)).obj

\* The list of n records that the reader of file number `file` returns: the
\* amplitudes and the meta data tell the file and the place in the list.
ReadList(file, n) ==
    List([k \in 1..n |->
             SpectrumInit(Array1(<<100 * file + k>>), Array1(<<0>>),
                          MetaDict(10 * file + k)).obj])

\* What a reader returns for one file: a Spectrum, or a list of Spectrum.
ReadResults(file) ==
    {ReadSpectrum(file, ndim, axis) : ndim \in {1, 2}, axis \in Axes}
    \cup {ReadList(file, n) : n \in 0..MaxListLen}

InitZip ==
    /\ \E n \in 2..MaxInputs :
          zin \in {t \in [1..n -> UNION {ReadResults(f) : f \in 1..n}] :
                      \A f \in 1..n : t[f] \in ReadResults(f)}
    /\ ztol \in Tolerances
    /\ zout = [kind |-> "pending", exc |-> "none", obj |-> List(<< >>)]

\* A few axes, for the calls in which the number of inputs matters more
\* than the coordinates.
FewAxes == {Array1(<<0>>), Array1(<<0, 1>>)}

FewResults(file) ==
    {ReadSpectrum(file, ndim, axis) : ndim \in {1, 2}, axis \in FewAxes}
    \cup {ReadList(file, n) : n \in 0..MaxListLen}

\* _zip_spectrum called on the results of one or more files.
InitZipAny ==
    /\ \E n \in 1..MaxInputs :
          zin \in {t \in [1..n -> UNION {FewResults(f) : f \in 1..n}] :
                      \A f \in 1..n : t[f] \in FewResults(f)}
    /\ ztol \in Tolerances
    /\ zout = [kind |-> "pending", exc |-> "none", obj |-> List(<< >>)]

IdleZip ==
    /\ zin = << >>
    /\ ztol = 0
    /\ zout = [kind |-> "pending", exc |-> "none", obj |-> List(<< >>)]

\* specread calls _zip_spectrum on the results of the files, once.
zip_spectrum ==
    /\ zout.kind = "pending"
    /\ zout' = ZipSpectrum(zin, ztol)
    /\ UNCHANGED <<zin, ztol, readerVars, registryVars, callVars, requestVars, decVars>>

NextZip == zip_spectrum

-----------------------------------------------------------------------------
(* Request                                                                 *)

\* A file object given as the uri: the file object number id of `files`.
PyFile(id) == [t |-> "file", s |-> << >>, id |-> id]

\* bytes, or the None that stands for no bytes yet
NoBytes == [isNone |-> TRUE, v |-> << >>]

Bytes(b) == [isNone |-> FALSE, v |-> b]

\* No file object: the None of Request._file.
NoFile == 0

\* The Request instance before __init__ has run.
NoRequest ==
    [uri_type |-> "none", filename |-> << >>, file |-> NoFile,
     filename_local |-> FALSE, firstbytes |-> NoBytes, has_bytes |-> FALSE]

\* The outcome of a call: what it returns or the exception it raises, with
\* the start of the message of the exception.
Returned(value) == [kind |-> "return", exc |-> "none", msg |-> "", value |-> value]

Raised(exc, msg) == [kind |-> "raise", exc |-> exc, msg |-> msg, value |-> NoRequest]

\* os.path.exists(os.path.abspath(name)) for a relative name of the model
Exists(name) == name \in ExistingFiles

\* Request.__init__(uri, mode): the instance, or the exception.  The names
\* of the model start neither with 'file://' nor with '~'.
RequestInit(uri, mode) ==
    IF mode.t # "str" THEN Raised("ValueError", "Request requires mode must be a string")
    ELSE IF Len(mode.s) # 1 THEN Raised("ValueError", "Request requires mode to have one char")
    ELSE IF mode.s[1] \notin {"s", "S", "?"}
    THEN Raised("ValueError", "Request requires mode to be in")
    ELSE IF uri.t = "str"
    THEN IF ~Exists(uri.s) THEN Raised("IOError", "No such file")
         ELSE Returned([NoRequest EXCEPT !.uri_type = "URI_FILENAME",
                                         !.filename = AbsPath(uri.s)])
    ELSE IF uri.t = "file"
    THEN Returned([NoRequest EXCEPT !.uri_type = "URI_FILE",
                                    !.filename = <<"<", "f", "i", "l", "e", ">">>,
                                    !.file = uri.id])
    ELSE Raised("IOError", "Cannot understand given URI")

\* ---- file objects ----

\* The bytes of the resource: byte number k is k.
Content(len) == [k \in 1..len |-> k]

\* A file object: who opened it, its read position, whether it is closed,
\* and whether tell() and seek() work on it.
FileObject(owner, pos, seekable) ==
    [owner |-> owner, pos |-> pos, closed |-> FALSE, seekable |-> seekable]

Min(a, b) == IF a < b THEN a ELSE b

\* f.read of up to n bytes from the read position: the bytes and the files.
ReadFile(fs, id, n) ==
    LET pos == fs.objs[id].pos
        end == Min(pos + n, Len(fs.content))
    IN  [bytes |-> SubSeq(fs.content, pos + 1, end),
         fs |-> [fs EXCEPT !.objs[id].pos = end]]

\* read_n_bytes(f, N): f.read is repeated until N bytes or the end.
ReadNBytes(fs, id, n) == ReadFile(fs, id, n)

\* ---- the methods of Request: the instance and the files after the call,
\* ---- the exception raised, the value returned

QReturn(q, fs, file, bytes) ==
    [q |-> q, fs |-> fs, exc |-> "none", msg |-> "", file |-> file, bytes |-> bytes]

QRaise(q, fs, exc, msg) ==
    [q |-> q, fs |-> fs, exc |-> exc, msg |-> msg, file |-> NoFile, bytes |-> NoBytes]

\* get_file()
GetFile(q, fs) ==
    IF q.file # NoFile THEN QReturn(q, fs, q.file, NoBytes)
    ELSE IF q.uri_type = "URI_FILENAME"
    THEN LET id == Len(fs.objs) + 1 IN
         QReturn([q EXCEPT !.file = id],
                 [fs EXCEPT !.objs = Append(@, FileObject("request", 0, fs.pathSeekable))],
                 id, NoBytes)
    ELSE QReturn(q, fs, NoFile, NoBytes)

\* get_local_filename(): a file object given as uri is copied to a
\* temporary file, which reads it to its end.
GetLocalFilename(q, fs) ==
    IF q.uri_type = "URI_FILENAME" THEN QReturn(q, fs, NoFile, NoBytes)
    ELSE LET q1 == [q EXCEPT !.filename_local = TRUE]
             g == GetFile(q1, fs)
         IN  IF g.file = NoFile THEN QRaise(g.q, g.fs, "AttributeError", "read")
             ELSE QReturn(g.q, ReadFile(g.fs, g.file, Len(fs.content)).fs, NoFile, NoBytes)

\* finish()
Finish(q, fs) ==
    LET own == q.file # NoFile /\ q.uri_type # "URI_FILE"
    IN  QReturn([q EXCEPT !.file = IF own THEN NoFile ELSE @,
                          !.filename_local = FALSE,
                          !.has_bytes = TRUE],
                IF own THEN [fs EXCEPT !.objs[q.file].closed = TRUE] ELSE fs,
                NoFile, NoBytes)

\* _read_first_bytes(N): self._bytes is read first; __init__ does not set it,
\* finish() does.
ReadFirstBytes(q, fs, n) ==
    IF ~q.has_bytes THEN QRaise(q, fs, "AttributeError", "_bytes")
    ELSE LET g == GetFile(q, fs)
             f == g.file
             i == g.fs.objs[f].pos
             r == ReadNBytes(g.fs, f, n)
             q1 == [g.q EXCEPT !.firstbytes = Bytes(r.bytes)]
         IN  IF f = NoFile THEN QRaise(g.q, g.fs, "AttributeError", "read")
             ELSE IF g.fs.objs[f].seekable
             THEN QReturn(q1, [r.fs EXCEPT !.objs[f].pos = i], NoFile, NoBytes)
             ELSE IF q.uri_type = "URI_FILE"
             THEN QRaise([q1 EXCEPT !.file = NoFile], r.fs, "IOError",
                         "Cannot seek back after getting firstbytes!")
             ELSE QReturn([q1 EXCEPT !.file = NoFile], r.fs, NoFile, NoBytes)

\* The property firstbytes
FirstBytes(q, fs, n) ==
    LET r == ReadFirstBytes(q, fs, n) IN
    IF ~q.firstbytes.isNone THEN QReturn(q, fs, NoFile, q.firstbytes)
    ELSE IF r.exc # "none" THEN r
    ELSE QReturn(r.q, r.fs, NoFile, r.q.firstbytes)

\* ---- the Request and the calls on it ----

\* The read position of the stream that get_file() returns in this state;
\* -1 when it returns None.
StreamPos(q, fs) ==
    IF q.file # NoFile THEN fs.objs[q.file].pos
    ELSE IF q.uri_type = "URI_FILENAME" THEN 0
    ELSE -1

\* The record of a Request operation: its name, its outcome, and the read
\* position of the stream before the call.
QOp(op, r, before) ==
    [op |-> op, exc |-> r.exc, msg |-> r.msg, file |-> r.file, bytes |-> r.bytes,
     before |-> before]

\* Request(uri, 's') on an existing file, or on a file object of the caller
\* that is at some read position.
InitRequest ==
    \E len \in 0..MaxBytes : \E pathSeekable \in BOOLEAN :
       \/ /\ files = [content |-> Content(len), pathSeekable |-> pathSeekable,
                      objs |-> << >>]
          /\ request = RequestInit(PyStr(<<"b">>), PyStr(<<"s">>)).value
          /\ qlast = QOp("__init__", QReturn(request, files, NoFile, NoBytes), 0)
       \/ \E pos \in 0..len : \E seekable \in BOOLEAN :
          /\ files = [content |-> Content(len), pathSeekable |-> pathSeekable,
                      objs |-> <<FileObject("caller", pos, seekable)>>]
          /\ request = RequestInit(PyFile(1), PyStr(<<"s">>)).value
          /\ qlast = QOp("__init__", QReturn(request, files, NoFile, NoBytes), pos)

IdleRequest ==
    /\ request = NoRequest
    /\ files = [content |-> << >>, pathSeekable |-> TRUE, objs |-> << >>]
    /\ qlast = QOp("none", QReturn(NoRequest, << >>, NoFile, NoBytes), 0)

\* One call on the Request: the three variables after it.
QStep(op, r) ==
    /\ Len(r.fs.objs) <= MaxFiles
    /\ request' = r.q
    /\ files' = r.fs
    /\ qlast' = QOp(op, r, StreamPos(request, files))
    /\ UNCHANGED <<readerVars, registryVars, zipVars, callVars, decVars>>

get_file == QStep("get_file", GetFile(request, files))

get_local_filename == QStep("get_local_filename", GetLocalFilename(request, files))

finish == QStep("finish", Finish(request, files))

firstbytes == QStep("firstbytes", FirstBytes(request, files, FirstBytesN))

\* A format reads the signature by itself: read_n_bytes(request.get_file(), N).
read_n_bytes ==
    LET g == GetFile(request, files)
        r == ReadNBytes(g.fs, g.file, FirstBytesN)
    IN  QStep("read_n_bytes",
              IF g.file = NoFile THEN QRaise(g.q, g.fs, "AttributeError", "read")
              ELSE QReturn(g.q, r.fs, NoFile, Bytes(r.bytes)))

NextRequest == get_file \/ get_local_filename \/ finish \/ firstbytes \/ read_n_bytes

-----------------------------------------------------------------------------
(* get_reader and specread                                                 *)

\* A list of uris.
PyList(items) == [t |-> "list", s |-> << >>, items |-> items]

\* The keyword arguments of the caller: none, or mode=... among them.
NoKwargs == [hasMode |-> FALSE, mode |-> PyInt]

ModeKwarg(mode) == [hasMode |-> TRUE, mode |-> mode]

\* No format argument: format=None.
NoFormatArg == [t |-> "None", s |-> << >>]

\* The registry `formats` of the library when the functions are called, in
\* its iteration order.
LibraryFormats == <<1, 6>>

\* What can_read of the formats of the library can answer.
LibraryCanRead ==
    LET reg == {LibraryFormats[k] : k \in 1..Len(LibraryFormats)} IN
    {[f \in FormatIds |-> IF f \in reg THEN g[f] ELSE "False"] :
        g \in [reg -> CanReadOutcomes]}

\* Request(uri, **kwargs): mode is a required argument of Request.__init__.
RequestCall(uri, kwargs) ==
    IF ~kwargs.hasMode
    THEN Raised("TypeError", "__init__() missing 1 required positional argument")
    ELSE RequestInit(uri, kwargs.mode)

\* get_reader(uri, format, **kwargs), with the answers cr of can_read and
\* the outcome open of the format's _open: the outcome and the format found.
GetReader(uri, format, kwargs, cr, open) ==
    LET q == RequestCall(uri, kwargs)
        named == GetItem(LibraryFormats, format, cr, << >>)
        searched == SearchReadFormat(LibraryFormats, q.value.filename, cr)
    IN  IF q.kind = "raise" THEN q
        ELSE IF format.t # "None" /\ named.kind = "raise"
        THEN Raised(named.exc,
                    IF named.exc = "IndexError" THEN "No format known by name" ELSE "")
        ELSE IF format.t = "None" /\ searched.exc # "none" THEN Raised(searched.exc, "")
        ELSE IF format.t = "None" /\ searched.result = NoFormat
        THEN Raised("ValueError", "Could not find a format")
        ELSE IF open = "raise" THEN Raised("OpenError", "")
        ELSE Returned(q.value)

\* glob.glob(name) for a name without wildcard: the name if it exists.
Glob(name) == IF Exists(name) THEN <<name>> ELSE << >>

RECURSIVE GlobAll(_)
GlobAll(names) ==
    IF names = << >> THEN << >> ELSE Glob(Head(names).s) \o GlobAll(Tail(names))

\* _validate_filenames(uri)
ValidateFilenames(uri) == IF uri.t = "list" THEN GlobAll(uri.items) ELSE Glob(uri.s)

\* _get_reader_get_data(uri, format, **kwargs): get_reader, then
\* `with reader: return reader.get_data(index=None)`, with the outcome out of
\* the format's _get_data and the outcome hook of its _close.
GetReaderGetData(name, format, kwargs, cr, open, out, hook) ==
    LET r == GetReader(PyStr(name), format, kwargs, cr, open)
        d == GetDataCall(FALSE, Idx(-1), None, out)
        c == CloseCall(FALSE, 0, 0, hook)
    IN  IF r.kind = "raise" THEN r
        ELSE IF d.result # "ok" THEN Raised(d.result, "")
        ELSE IF c.result # "ok" THEN Raised(c.result, "")
        ELSE Returned(r.value)

\* `[_get_reader_get_data(f, format, **kwargs) for f in filenames]`: the
\* outcome of each read.
ReadAll(filenames, format, kwargs, cr, open, out, hook) ==
    [k \in 1..Len(filenames) |->
        GetReaderGetData(filenames[k], format, kwargs, cr, open, out, hook)]

\* The place of the first read that raised, 0 when none did.
FirstRaise(read) ==
    LET failed == {k \in 1..Len(read) : read[k].kind = "raise"} IN
    IF failed = {} THEN 0 ELSE CHOOSE k \in failed : \A j \in failed : k <= j

\* specread(uri, format, tol_wavelength, **kwargs) with the outcomes `read`
\* of reading its files in turn: the first failure ends the call.
SpecRead(read) ==
    IF FirstRaise(read) # 0 THEN read[FirstRaise(read)]
    ELSE IF Len(read) > 1
    THEN LET z == ZipSpectrum([k \in 1..Len(read) |-> ReadSpectrum(k, 2, Array1(<<0>>))],
                              0)
         IN  IF z.kind = "raise" THEN Raised(z.exc, "") ELSE Returned(NoRequest)
    ELSE IF Len(read) = 0 THEN Raised("IndexError", "list index out of range")
    ELSE read[1]

\* The names given as uri: two existing files and a file that does not exist.
UriNames == {<<"a", ".", "a">>, <<"b">>, <<"b", ".", "b">>}

Uris ==
    {PyStr(n) : n \in UriNames}
    \cup {PyList(t) : t \in Tuples({PyStr(n) : n \in UriNames}, MaxUris)}

FormatArgs == {NoFormatArg, PyStr(<<"a">>), PyStr(<<"b", "b">>)}

KwargsChoices == {NoKwargs, ModeKwarg(PyStr(<<"s">>)), ModeKwarg(PyStr(<<"x">>))}

\* The call that is about to be made: its arguments are chosen.
InitCall ==
    \E uri \in Uris : \E format \in FormatArgs : \E kwargs \in KwargsChoices :
        call = [fn |-> "none", uri |-> uri, format |-> format, kwargs |-> kwargs,
                out |-> Returned(NoRequest)]

\* The call before any argument is chosen.
IdleCall ==
    call = [fn |-> "none", uri |-> PyInt, format |-> NoFormatArg, kwargs |-> NoKwargs,
            out |-> Returned(NoRequest)]

get_reader ==
    /\ call.fn = "none"
    /\ \E cr \in LibraryCanRead : \E open \in {"ok", "raise"} :
          call' = [call EXCEPT !.fn = "get_reader",
                               !.out = GetReader(call.uri, call.format, call.kwargs,
                                                 cr, open)]
    /\ UNCHANGED <<readerVars, registryVars, zipVars, requestVars, decVars>>

specread ==
    /\ call.fn = "none"
    /\ \E cr \in LibraryCanRead : \E open \in {"ok", "raise"} :
       \E out \in GetDataOutcomes : \E hook \in CloseHookOutcomes :
       \E read \in {ReadAll(ValidateFilenames(call.uri), call.format, call.kwargs,
                             cr, open, out, hook)} :
          call' = [call EXCEPT !.fn = "specread", !.out = SpecRead(read)]
    /\ UNCHANGED <<readerVars, registryVars, zipVars, requestVars, decVars>>

NextCall == get_reader \/ specread

-----------------------------------------------------------------------------
(* Spectrum(spectrum, wavelength, meta)                                    *)

RECURSIVE Product(_)
Product(shape) == IF shape = << >> THEN 1 ELSE Head(shape) * Product(Tail(shape))

\* np.zeros(shape)
Zeros(shape) == [shape |-> shape, flat |-> [k \in 1..Product(shape) |-> 0]]

\* The arrays of 0 to 3 dimensions, the 1-D arrays of 1-D arrays, and a
\* value that is no array.
Shapes == UNION {[1..n -> 1..MaxDim] : n \in 0..3}

ArrayArgs ==
    {Zeros(shape) : shape \in Shapes}
    \cup {ObjectArray(e) : e \in UNION {[1..n -> {<<d>> : d \in 1..MaxDim}] : n \in 1..MaxDim}}
    \cup {PyInt}

MetaArgs == {PyNone, MetaDict(1), TupleOf(<< >>)}

InitSpectrum ==
    \E spectrum \in ArrayArgs : \E wavelength \in ArrayArgs : \E meta \in MetaArgs :
        call = [fn |-> "none", spectrum |-> spectrum, wavelength |-> wavelength,
                meta |-> meta, out |-> [exc |-> "none", obj |-> List(<< >>)]]

Spectrum ==
    /\ call.fn = "none"
    /\ call' = [call EXCEPT !.fn = "Spectrum",
                            !.out = SpectrumInit(call.spectrum, call.wavelength, call.meta)]
    /\ UNCHANGED <<readerVars, registryVars, zipVars, requestVars, decVars>>

NextSpectrum == Spectrum

-----------------------------------------------------------------------------
(* Format.Reader._get_data and the _get_data of the example format         *)

\* Row number `row` (from 0) of a 2-D array: a 1-D array.
RowOf(a, row) == Array1(SubSeq(a.flat, row * a.shape[2] + 1, (row + 1) * a.shape[2]))

\* seq[index] of Python for a sequence of n items: the place of the item
\* (from 1), a negative index counting from the end; 0 for an IndexError.
PyIndex(n, index) ==
    IF 0 <= index /\ index < n THEN index + 1
    ELSE IF -n <= index /\ index < 0 THEN n + index + 1
    ELSE 0

GetDataReturn(obj) == [result |-> "ok", obj |-> obj]

GetDataRaise(exc) == [result |-> exc, obj |-> List(<< >>)]

\* Format.Reader._get_data(index) on the _data of the reader: a Spectrum or
\* a list of Spectrum.
BaseGetData(data, index) ==
    IF data.cls = "Spectrum"
    THEN IF index.isNone THEN GetDataReturn(data)
         ELSE IF "amplitudes" \notin SpectrumAttrs THEN GetDataRaise("AttributeError")
         ELSE IF Len(data["amplitudes"].shape) # 2 THEN GetDataReturn(data)
         ELSE IF PyIndex(data["amplitudes"].shape[1], index.v) = 0
         THEN GetDataRaise("IndexError")
         ELSE LET row == RowOf(data["amplitudes"],
                               PyIndex(data["amplitudes"].shape[1], index.v) - 1)
                  made == SpectrumInit(row, data.wavelength, data.meta)
              IN  IF made.exc # "none" THEN GetDataRaise(made.exc)
                  ELSE GetDataReturn(made.obj)
    ELSE IF index.isNone THEN GetDataReturn(data)
         ELSE IF PyIndex(Len(data.items), index.v) = 0 THEN GetDataRaise("IndexError")
         ELSE GetDataReturn(data.items[PyIndex(Len(data.items), index.v)])

\* DummyFormat.Reader._get_data(index) of the example format, for a reader
\* opened with length=len.
ExampleGetData(len, index) ==
    IF ~index.isNone /\ index.v >= len THEN GetDataRaise("IndexError")
    ELSE GetDataReturn(ReadSpectrum(1, 2, Array1(<<0>>)))

\* The _data of a reader of the base class: a Spectrum with 1-D amplitudes,
\* one with 2-D amplitudes, or a list of Spectrum.
ReaderData ==
    {ReadSpectrum(1, 1, Array1(<<0, 1>>))}
    \cup {SpectrumInit(Array2(rows, 2, [k \in 1..2 * rows |-> k]), Array1(<<0, 1>>),
                       MetaDict(1)).obj : rows \in 1..MaxRows}
    \cup {ReadList(1, n) : n \in 0..MaxListLen}

\* The number of records that the reader holds.
DataLength(data) ==
    IF data.cls = "list" THEN Len(data.items)
    ELSE IF Len(data.spectrum.shape) = 2 THEN data.spectrum.shape[1]
    ELSE 1

AnyIndex == {None} \cup {Idx(i) : i \in -MaxIndex..MaxIndex}

\* A Spectrum whose meta attribute the format has set to a tuple of dicts,
\* one for each row of the amplitudes.
TupleMetaData ==
    {[SpectrumInit(Array2(2, 2, <<1, 2, 3, 4>>), Array1(<<0, 1>>), PyNone).obj
         EXCEPT !.meta = TupleOf(<<MetaDict(1), MetaDict(2)>>)]}

MetaReturn(meta) == [result |-> "ok", obj |-> List(<< >>), meta |-> meta]

MetaRaise(exc) == [result |-> exc, obj |-> List(<< >>), meta |-> PyNone]

\* isinstance(meta, Iterable): a dict and a tuple are iterable.
IsIterable(meta) == meta.t \in {"dict", "tuple"}

\* Format.Reader._get_meta_data(index) on the _data of the reader.  The keys
\* of a meta data dict are names, so that an integer is never one of them.
BaseGetMetaData(data, index) ==
    IF data.cls # "Spectrum" THEN MetaRaise("AttributeError")
    ELSE IF ~index.isNone /\ IsIterable(data.meta)
    THEN IF data.meta.t = "dict" THEN MetaRaise("KeyError")
         ELSE IF PyIndex(Len(data.meta.items), index.v) = 0 THEN MetaRaise("IndexError")
         ELSE MetaReturn(data.meta.items[PyIndex(Len(data.meta.items), index.v)])
    ELSE MetaReturn(data.meta)

\* DummyFormat.Reader._get_meta_data(index): `return {}`.
ExampleGetMetaData(index) == MetaReturn(MetaDict(0))

\* A reader of the base class with its _data, or a reader of the example
\* format with its length, and the index of the call to come.
InitGetData ==
    \E index \in AnyIndex :
       \/ \E data \in ReaderData \cup TupleMetaData :
             call = [fn |-> "none", reader |-> "Format.Reader", data |-> data,
                     length |-> DataLength(data), index |-> index,
                     out |-> GetDataReturn(List(<< >>))]
       \/ \E len \in 0..MaxLen :
             call = [fn |-> "none", reader |-> "DummyFormat.Reader", data |-> List(<< >>),
                     length |-> len, index |-> index,
                     out |-> GetDataReturn(List(<< >>))]

\* get_data(index) on the open reader: the closed check, then _get_data.
reader_get_data ==
    LET r == IF call.reader = "Format.Reader" THEN BaseGetData(call.data, call.index)
             ELSE ExampleGetData(call.length, call.index)
        g == GetDataCall(FALSE, Idx(-1), call.index, r.result)
    IN  /\ call.fn = "none"
        /\ call' = [call EXCEPT !.fn = "get_data",
                                !.out = [result |-> g.result, obj |-> r.obj]]
        /\ UNCHANGED <<readerVars, registryVars, zipVars, requestVars, decVars>>

\* get_meta_data(index) on the open reader: the closed check, then
\* _get_meta_data.
reader_get_meta_data ==
    LET r == IF call.reader = "Format.Reader" THEN BaseGetMetaData(call.data, call.index)
             ELSE ExampleGetMetaData(call.index)
    IN  /\ call.fn = "none"
        /\ call' = [call EXCEPT !.fn = "get_meta_data",
                                !.out = IF CheckClosed(FALSE) # "ok"
                                        THEN MetaRaise(CheckClosed(FALSE))
                                        ELSE r]
        /\ UNCHANGED <<readerVars, registryVars, zipVars, requestVars, decVars>>

NextGetData == reader_get_data \/ reader_get_meta_data

-----------------------------------------------------------------------------
(* The binary decoders of plugins/fsm.py and plugins/sp.py                 *)

\* The sizes in bytes of the signature, of the description and of the
\* information of a block.
SignatureLen == 4

DescriptionLen == 40

BlockInfoLen == 6

\* ---- bytes objects: sequences of numbers in 0..255 ----

\* The index i of a slice of a sequence of n items, as Python clips it.
ClipIndex(i, n) ==
    IF i < 0 THEN (IF i + n < 0 THEN 0 ELSE i + n) ELSE (IF i > n THEN n ELSE i)

\* data[a:b]
PySlice(data, a, b) ==
    LET lo == ClipIndex(a, Len(data))
        hi == ClipIndex(b, Len(data))
    IN  IF lo < hi THEN SubSeq(data, lo + 1, hi) ELSE << >>

\* struct.unpack('<H', d): d has 2 bytes
U16(d) == d[1] + 256 * d[2]

\* struct.unpack('<h', d): d has 2 bytes
I16(d) == IF d[2] >= 128 THEN U16(d) - 65536 ELSE U16(d)

\* struct.unpack('<i', d): d has 4 bytes
I32(d) ==
    d[1] + 256 * d[2] + 65536 * d[3]
        + 16777216 * (IF d[4] >= 128 THEN d[4] - 256 ELSE d[4])

\* struct.unpack('<I', d): d has 4 bytes, the last one below 128 in the model
U32(d) == d[1] + 256 * d[2] + 65536 * d[3] + 16777216 * d[4]

\* bytes.decode('utf8') fails on the bytes 0xF5..0xFF, which no UTF-8 text
\* holds; the other bytes of the model are ASCII.
DecodesAsUtf8(d) == \A k \in 1..Len(d) : d[k] < 128

\* _block_info(data): (block_id, block_size), or the ValueError for a slice
\* that has not 6 bytes.
BlockInfo(data) ==
    IF Len(data) # BlockInfoLen
    THEN [exc |-> "ValueError", id |-> 0, size |-> 0]
    ELSE [exc |-> "none", id |-> U16(SubSeq(data, 1, 2)), size |-> I32(SubSeq(data, 3, 6))]

\* ---- _decode_5104: the scan of the tagged fields ----

\* The second byte of the tags '#u', '$u' and ',u'.
TagByte == 117

\* The while loop of _decode_5104 from start_byte, with count texts found
\* so far.  The position alone decides what the loop does next: when it
\* comes back to a position of `seen` the loop never ends ("hang").
RECURSIVE Scan5104(_, _, _, _)
Scan5104(data, start_byte, count, seen) ==
    IF ~(start_byte + 2 < Len(data)) THEN [exc |-> "none", count |-> count]
    ELSE IF start_byte \in seen THEN [exc |-> "hang", count |-> count]
    ELSE
      LET tag == PySlice(data, start_byte, start_byte + 2)
          field == PySlice(data, start_byte + 2, start_byte + 4)
          visited == seen \cup {start_byte}
      IN  IF tag = <<35, TagByte>>
          THEN IF Len(field) # 2 THEN [exc |-> "struct.error", count |-> count]
               ELSE IF ~DecodesAsUtf8(PySlice(data, start_byte + 4,
                                              start_byte + 4 + I16(field)))
               THEN [exc |-> "UnicodeDecodeError", count |-> count]
               ELSE Scan5104(data, start_byte + 4 + I16(field) + 6, count + 1, visited)
          ELSE IF tag = <<36, TagByte>>
          THEN IF Len(field) # 2 THEN [exc |-> "struct.error", count |-> count]
               ELSE Scan5104(data, start_byte + 4 + 6, count + 1, visited)
          ELSE IF tag = <<44, TagByte>>
          THEN IF Len(field) # 2 THEN [exc |-> "struct.error", count |-> count]
               ELSE Scan5104(data, start_byte + 4, count + 1, visited)
          ELSE Scan5104(data, start_byte + 1, count, visited)

\* _decode_5104(data): the keys of the dict it returns, or the exception;
\* the dict is built from text[0] up to text[last].
Decode5104(data, last_text) ==
    LET scan == Scan5104(data, 0, 0, {}) IN
    IF scan.exc # "none" THEN [exc |-> scan.exc, kind |-> "dict", keys |-> {}, n |-> 0]
    ELSE IF scan.count <= last_text
    THEN [exc |-> "IndexError", kind |-> "dict", keys |-> {}, n |-> 0]
    ELSE [exc |-> "none", kind |-> "dict", keys |-> {"analyst"}, n |-> 0]

\* What a decode function gives: a dict with its keys, an array of n
\* numbers, or None; or the exception it raises.
Decoded(kind, keys, n) == [exc |-> "none", kind |-> kind, keys |-> keys, n |-> n]

DecodeRaise(exc) == [exc |-> exc, kind |-> "dict", keys |-> {}, n |-> 0]

\* ---- the decode functions of plugins/fsm.py ----

\* _decode_5100(data): the name, then a header of 104 bytes.
FsmDecode5100(data) ==
    IF Len(PySlice(data, 0, 2)) # 2 THEN DecodeRaise("struct.error")
    ELSE LET name_size == I16(PySlice(data, 0, 2)) IN
         IF ~DecodesAsUtf8(PySlice(data, 2, name_size + 2))
         THEN DecodeRaise("UnicodeDecodeError")
         ELSE IF Len(PySlice(data, name_size + 2, name_size + 104 + 2)) # 104
         THEN DecodeRaise("struct.error")
         ELSE Decoded("dict", {"z_start", "z_end", "z_delta"}, 0)

\* _decode_5105(data): np.frombuffer(data, dtype=np.float32)
FsmDecode5105(data) ==
    IF Len(data) % 4 # 0 THEN DecodeRaise("ValueError")
    ELSE Decoded("array", {}, Len(data) \div 4)

\* The keys of FUNC_DECODE of plugins/fsm.py.
FsmFuncDecode == {5100, 5104, 5105}

\* FUNC_DECODE[block_id](data) of plugins/fsm.py
FsmDecode(block_id, data) ==
    IF block_id \notin FsmFuncDecode THEN DecodeRaise("KeyError")
    ELSE IF block_id = 5100 THEN FsmDecode5100(data)
    ELSE IF block_id = 5104 THEN Decode5104(data, 67)
    ELSE FsmDecode5105(data)

\* ---- the decode functions of plugins/sp.py ----

\* The decode functions that read one variable: its id, then its bytes.
\* The result is not bound when the id is another one.
SpDecodeVar(data, var_id, n_bytes, keys) ==
    IF Len(PySlice(data, 0, 2)) # 2 THEN DecodeRaise("struct.error")
    ELSE IF U16(PySlice(data, 0, 2)) # var_id THEN DecodeRaise("UnboundLocalError")
    ELSE IF Len(PySlice(data, 2, 2 + n_bytes)) # n_bytes THEN DecodeRaise("struct.error")
    ELSE Decoded("dict", keys, 0)

\* _decode_35701(data): the number of points.
SpDecode35701(data) ==
    IF SpDecodeVar(data, 29995, 4, {"n_points"}).exc # "none"
    THEN SpDecodeVar(data, 29995, 4, {"n_points"})
    ELSE Decoded("dict", {"n_points"}, U32(PySlice(data, 2, 6)))

\* _decode_25739(data): the path of the file, or None.
SpDecode25739(data) ==
    IF Len(PySlice(data, 0, 2)) # 2 THEN DecodeRaise("struct.error")
    ELSE IF U16(PySlice(data, 0, 2)) # 29987 THEN Decoded("None", {}, 0)
    ELSE IF Len(PySlice(data, 2, 4)) # 2 THEN DecodeRaise("struct.error")
    ELSE IF ~DecodesAsUtf8(PySlice(data, 4, 4 + U16(PySlice(data, 2, 4))))
    THEN DecodeRaise("UnicodeDecodeError")
    ELSE Decoded("dict", {"file_path"}, 0)

\* _decode_35708(data): the array of float64, or None.
SpDecode35708(data) ==
    IF Len(PySlice(data, 0, 2)) # 2 THEN DecodeRaise("struct.error")
    ELSE IF U16(PySlice(data, 0, 2)) # 29974 THEN Decoded("None", {}, 0)
    ELSE IF Len(PySlice(data, 2, 6)) # 4 THEN DecodeRaise("struct.error")
    ELSE LET values == PySlice(data, 6, 6 + U32(PySlice(data, 2, 6))) IN
         IF Len(values) % 8 # 0 THEN DecodeRaise("ValueError")
         ELSE Decoded("array", {}, Len(values) \div 8)

\* The keys of FUNC_DECODE of plugins/sp.py.
SpFuncDecode == {25739, 35698, 35699, 35700, 35701, 35708}

\* FUNC_DECODE[block_id](data) of plugins/sp.py, for a block_id among its keys
SpDecode(block_id, data) ==
    CASE block_id = 25739 -> SpDecode25739(data)
      [] block_id = 35698 ->
            SpDecodeVar(data, 29981, 16, {"min_wavelength", "max_wavelength"})
      [] block_id = 35699 -> SpDecodeVar(data, 29981, 16, {"min_absolute", "max_absolute"})
      [] block_id = 35700 -> SpDecodeVar(data, 29979, 8, {"wavelength_step"})
      [] block_id = 35701 -> SpDecode35701(data)
      [] block_id = 35708 -> SpDecode35708(data)

\* ---- the locals of _read_fsm and of _read_sp ----

\* The call at its first statement after `content = fsm_file.read()`, the
\* signature and the description: start_byte = 4, n_bytes = 40.
\* seen holds the values that the variables of the loop condition had at
\* the iterations so far; site is the expression that raised.
Started(fn, content) ==
    [fn |-> fn, pc |-> "begin", content |-> content,
     start_byte |-> SignatureLen, n_bytes |-> DescriptionLen,
     block_id |-> 0, block_size |-> 0, NBP |-> << >>,
     meta |-> {"signature", "description"},
     spectrum |-> [kind |-> "list", n |-> 0], n_points |-> 0,
     seen |-> {}, exc |-> "none", site |-> "none"]

\* The call ends with the exception exc raised by the expression site.
Raises(d, exc, site) == [d EXCEPT !.pc = "raised", !.exc = exc, !.site = site]

\* The loop is back where it has been: it never ends.
Hangs(d, site) == [d EXCEPT !.pc = "hang", !.site = site]

\* `meta.update(decoded)` or the assignment of the decoded array.
Contribute(d, decoded, append) ==
    IF decoded.kind = "dict"
    THEN [d EXCEPT !.meta = @ \cup decoded.keys,
                   !.n_points = IF "n_points" \in decoded.keys THEN decoded.n ELSE @]
    ELSE IF append
    THEN [d EXCEPT !.spectrum = [kind |-> "list", n |-> @.n + 1]]
    ELSE [d EXCEPT !.spectrum = [kind |-> decoded.kind, n |-> decoded.n]]

\* ---- FSM.Reader._read_fsm ----

\* One iteration of `while start_byte + n_bytes < len(content)`.
FsmBlock(d) ==
    LET pos == d.start_byte + d.n_bytes
        info == BlockInfo(PySlice(d.content, pos, pos + BlockInfoLen))
        start == pos + BlockInfoLen
        decoded == FsmDecode(info.id, PySlice(d.content, start, start + info.size))
        read == [d EXCEPT !.start_byte = start, !.n_bytes = info.size,
                          !.block_id = info.id, !.block_size = info.size,
                          !.seen = @ \cup {<<d.start_byte, d.n_bytes>>}]
    IN  IF <<d.start_byte, d.n_bytes>> \in d.seen THEN Hangs(d, "block walk")
        ELSE IF info.exc # "none" THEN Raises(d, info.exc, "_block_info")
        ELSE IF decoded.exc = "hang" THEN Hangs(read, "_decode_5104")
        ELSE IF decoded.exc # "none"
        THEN Raises(read, decoded.exc,
                    IF info.id \in FsmFuncDecode THEN "decode" ELSE "FUNC_DECODE[block_id]")
        ELSE Contribute(read, decoded, TRUE)

\* The statements after the loop: np.arange needs the keys of block 5100;
\* built tells whether Spectrum accepts the arrays.
FsmFinish(d, built) ==
    IF "z_start" \notin d.meta THEN Raises(d, "KeyError", "meta['z_start']")
    ELSE IF ~built THEN Raises(d, "ValueError", "Spectrum")
    ELSE [d EXCEPT !.pc = "returned", !.meta = @ \cup {"filename"}]

\* ---- SP.Reader._read_sp ----

\* The information of the first block and the first pending offset.
SpBegin(d) ==
    LET pos == d.start_byte + d.n_bytes
        info == BlockInfo(PySlice(d.content, pos, pos + BlockInfoLen))
        start == pos + BlockInfoLen
    IN  IF info.exc # "none" THEN Raises(d, info.exc, "_block_info")
        ELSE [d EXCEPT !.pc = "pointers", !.start_byte = start, !.n_bytes = BlockInfoLen,
                       !.block_id = info.id, !.block_size = info.size,
                       !.NBP = <<start + info.size>>]

\* `while block_id != 122 and start_byte < len(content) - 2`
SpPointerLoop(d) == d.block_id # 122 /\ d.start_byte < Len(d.content) - 2

\* One iteration of that loop.  In the branch of the marker, NBP[:-1] is
\* kept, then `while start_byte >= NBP[-1]: NBP = NBP[-1]` binds NBP to a
\* number, of which the next test takes [-1].
SpPointer(d) ==
    LET marker == PySlice(d.content, d.start_byte, d.start_byte + 2)
        top == d.NBP[Len(d.NBP)]
        rest == SubSeq(d.NBP, 1, Len(d.NBP) - 1)
        info == BlockInfo(PySlice(d.content, d.start_byte, d.start_byte + BlockInfoLen))
        start == d.start_byte + BlockInfoLen
        here == [d EXCEPT !.seen = @ \cup {<<d.start_byte, d.block_id, d.NBP>>}]
    IN  IF <<d.start_byte, d.block_id, d.NBP>> \in d.seen THEN Hangs(d, "pointer traversal")
        ELSE IF Len(marker) < 2 THEN Raises(here, "IndexError", "indexbytes")
        ELSE IF marker[2] = TagByte
        THEN IF rest = << >>
             THEN Raises([here EXCEPT !.start_byte = top, !.NBP = rest],
                         "IndexError", "NBP[-1]")
             ELSE IF top >= rest[Len(rest)]
             THEN Raises([here EXCEPT !.start_byte = top, !.NBP = rest],
                         "TypeError", "NBP = NBP[-1]")
             ELSE [here EXCEPT !.start_byte = top, !.NBP = rest]
        ELSE IF info.exc # "none" THEN Raises(here, info.exc, "_block_info")
        ELSE [here EXCEPT !.start_byte = start, !.block_id = info.id,
                          !.block_size = info.size,
                          !.NBP = Append(@, start + info.size)]

\* After the loop: meta.update(_decode_5104(...)), then start_byte = NBP[1].
SpMeta(d) ==
    LET decoded == Decode5104(PySlice(d.content, d.start_byte,
                                      d.start_byte + d.block_size), 32)
    IN  IF decoded.exc = "hang" THEN Hangs(d, "_decode_5104")
        ELSE IF decoded.exc # "none" THEN Raises(d, decoded.exc, "_decode_5104")
        ELSE IF Len(d.NBP) < 2
        THEN Raises(Contribute(d, decoded, FALSE), "IndexError", "NBP[1]")
        ELSE [Contribute(d, decoded, FALSE) EXCEPT !.pc = "blocks",
                                                   !.start_byte = d.NBP[2], !.seen = {}]

\* One iteration of `while start_byte < len(content)`.
SpBlock(d) ==
    LET info == BlockInfo(PySlice(d.content, d.start_byte, d.start_byte + BlockInfoLen))
        start == d.start_byte + BlockInfoLen
        decoded == SpDecode(info.id, PySlice(d.content, start, start + info.size))
        read == [d EXCEPT !.start_byte = start + info.size, !.n_bytes = BlockInfoLen,
                          !.block_id = info.id, !.block_size = info.size,
                          !.seen = @ \cup {d.start_byte}]
    IN  IF d.start_byte \in d.seen THEN Hangs(d, "block walk")
        ELSE IF info.exc # "none" THEN Raises(d, info.exc, "_block_info")
        ELSE IF info.id \notin SpFuncDecode THEN read
        ELSE IF decoded.exc # "none" THEN Raises(read, decoded.exc, "decode")
        ELSE Contribute(read, decoded, FALSE)

\* The statements after the loop: np.linspace, then Spectrum(...).
SpFinish(d) ==
    IF "min_wavelength" \notin d.meta THEN Raises(d, "KeyError", "meta['min_wavelength']")
    ELSE IF "n_points" \notin d.meta THEN Raises(d, "KeyError", "meta['n_points']")
    ELSE IF d.spectrum.kind # "array" THEN Raises(d, "ValueError", "Spectrum")
    ELSE IF SpectrumInit(Zeros(<<d.spectrum.n>>), Zeros(<<d.n_points>>),
                         MetaDict(0)).exc # "none"
    THEN Raises(d, "ValueError", "Spectrum")
    ELSE [d EXCEPT !.pc = "returned", !.meta = @ \cup {"filename"}]

\* ---- the files given to the decoders ----

\* The bytes of n, little-endian: '<H', and '<i' for -65536 < n < 65536.
LE16(n) == <<n % 256, n \div 256>>

LE32(n) == IF n < 0 THEN LE16(n + 65536) \o <<255, 255>> ELSE LE16(n) \o <<0, 0>>

RECURSIVE Repeat(_, _)
Repeat(bytes, n) == IF n = 0 THEN << >> ELSE bytes \o Repeat(bytes, n - 1)

\* A block: its id, its declared size, its bytes.
Block(id, size, payload) == LE16(id) \o LE32(size) \o payload

\* b'PEPE' and a description of 40 bytes.
Preamble == <<80, 69, 80, 69>> \o Repeat(<<0>>, DescriptionLen)

\* What follows the preamble of a file given to _read_fsm: a block of an id
\* that FUNC_DECODE does not know, blocks of amplitudes (one declares the
\* size -6), a block of tagged fields, the block of the header, a lone byte.
FsmPieces ==
    {Block(7, 0, << >>),
     Block(5105, 4, <<0, 0, 0, 0>>),
     Block(5105, -6, << >>),
     Block(5104, 4, <<44, TagByte, 0, 0>>),
     Block(5100, 106, Repeat(<<0>>, 106)),
     <<7>>}

\* What follows the preamble of a file given to _read_sp: blocks of an id
\* that FUNC_DECODE does not know (one declares the size -6, one declares
\* a size that covers the blocks after it), the block 122 with 33 tagged
\* fields, a block 122 whose text field declares the size -10, a marker and
\* one more byte, the three blocks of the data, a lone byte.
SpPieces ==
    {Block(7, 0, << >>),
     Block(7, -6, << >>),
     Block(7, 14, << >>),
     Block(122, 132, Repeat(<<44, TagByte, 0, 0>>, 33)),
     Block(122, 5, <<35, TagByte, 246, 255, 0>>),
     <<35, TagByte, 0>>,
     Block(35698, 18, LE16(29981) \o Repeat(<<0>>, 16))
        \o Block(35701, 6, LE16(29995) \o LE32(1))
        \o Block(35708, 14, LE16(29974) \o LE32(8) \o Repeat(<<0>>, 8)),
     <<7>>}

RECURSIVE Join(_)
Join(pieces) == IF pieces = << >> THEN << >> ELSE Head(pieces) \o Join(Tail(pieces))

\* A call of one of the two decoders on a file of the model.
InitDecoder ==
    \/ \E pieces \in Tuples(FsmPieces, MaxPieces) :
          dec = [Started("_read_fsm", Preamble \o Join(pieces)) EXCEPT !.pc = "blocks"]
    \/ \E pieces \in Tuples(SpPieces, MaxPieces) :
          dec = Started("_read_sp", Preamble \o Join(pieces))

\* No call of a decoder.
IdleDecoder == dec = [fn |-> "none"]

fsm_block ==
    /\ dec.fn = "_read_fsm"
    /\ dec.pc = "blocks"
    /\ dec.start_byte + dec.n_bytes < Len(dec.content)
    /\ dec' = FsmBlock(dec)
    /\ UNCHANGED <<readerVars, registryVars, zipVars, callVars, requestVars>>

fsm_finish ==
    /\ dec.fn = "_read_fsm"
    /\ dec.pc = "blocks"
    /\ ~(dec.start_byte + dec.n_bytes < Len(dec.content))
    /\ \E built \in BOOLEAN : dec' = FsmFinish(dec, built)
    /\ UNCHANGED <<readerVars, registryVars, zipVars, callVars, requestVars>>

sp_begin ==
    /\ dec.fn = "_read_sp"
    /\ dec.pc = "begin"
    /\ dec' = SpBegin(dec)
    /\ UNCHANGED <<readerVars, registryVars, zipVars, callVars, requestVars>>

sp_pointer ==
    /\ dec.fn = "_read_sp"
    /\ dec.pc = "pointers"
    /\ SpPointerLoop(dec)
    /\ dec' = SpPointer(dec)
    /\ UNCHANGED <<readerVars, registryVars, zipVars, callVars, requestVars>>

sp_meta ==
    /\ dec.fn = "_read_sp"
    /\ dec.pc = "pointers"
    /\ ~SpPointerLoop(dec)
    /\ dec' = SpMeta(dec)
    /\ UNCHANGED <<readerVars, registryVars, zipVars, callVars, requestVars>>

sp_block ==
    /\ dec.fn = "_read_sp"
    /\ dec.pc = "blocks"
    /\ dec.start_byte < Len(dec.content)
    /\ dec' = SpBlock(dec)
    /\ UNCHANGED <<readerVars, registryVars, zipVars, callVars, requestVars>>

sp_finish ==
    /\ dec.fn = "_read_sp"
    /\ dec.pc = "blocks"
    /\ ~(dec.start_byte < Len(dec.content))
    /\ dec' = SpFinish(dec)
    /\ UNCHANGED <<readerVars, registryVars, zipVars, callVars, requestVars>>

NextDecoder ==
    \/ fsm_block
    \/ fsm_finish
    \/ sp_begin
    \/ sp_pointer
    \/ sp_meta
    \/ sp_block
    \/ sp_finish

-----------------------------------------------------------------------------
(* Specifications                                                          *)

Init == InitReader /\ IdleRegistry /\ IdleZip /\ IdleCall /\ IdleRequest /\ IdleDecoder

Next == NextReader

\* One Reader and the calls a caller can make on it, in any order.
Spec == Init /\ [][Next]_vars

InitRegistryOnly == InitRegistry /\ IdleReader /\ IdleZip /\ IdleCall /\ IdleRequest /\ IdleDecoder

\* The registry and the calls a caller can make on it, in any order.
SpecRegistry == InitRegistryOnly /\ [][NextRegistry]_vars

InitZipOnly == InitZip /\ IdleReader /\ IdleRegistry /\ IdleCall /\ IdleRequest /\ IdleDecoder

\* One call of _zip_spectrum on the results read from two or more files.
SpecZip == InitZipOnly /\ [][NextZip]_vars

InitLookupOnly == InitLookup /\ IdleReader /\ IdleZip /\ IdleCall /\ IdleRequest /\ IdleDecoder

\* One sort call on a registry that earlier calls have built and ordered.
SpecSort == InitLookupOnly /\ [][NextSort]_vars

InitDecoderOnly ==
    InitDecoder /\ IdleReader /\ IdleRegistry /\ IdleZip /\ IdleCall /\ IdleRequest

\* One call of _read_fsm or of _read_sp, one loop iteration at a time.
SpecDecoder == InitDecoderOnly /\ [][NextDecoder]_vars

InitZipAnyOnly == InitZipAny /\ IdleReader /\ IdleRegistry /\ IdleCall /\ IdleRequest /\ IdleDecoder

\* One call of _zip_spectrum on the results read from one or more files.
SpecZipAny == InitZipAnyOnly /\ [][NextZip]_vars

InitCallOnly == InitCall /\ IdleReader /\ IdleRegistry /\ IdleZip /\ IdleRequest /\ IdleDecoder

\* One call of get_reader or of specread.
SpecCall == InitCallOnly /\ [][NextCall]_vars

InitRequestOnly == InitRequest /\ IdleReader /\ IdleRegistry /\ IdleZip /\ IdleCall /\ IdleDecoder

\* A Request and the calls of a format on it, in any order.
SpecRequest == InitRequestOnly /\ [][NextRequest]_vars

InitSpectrumOnly == InitSpectrum /\ IdleReader /\ IdleRegistry /\ IdleZip /\ IdleRequest /\ IdleDecoder

\* One construction of a Spectrum.
SpecSpectrum == InitSpectrumOnly /\ [][NextSpectrum]_vars

InitGetDataOnly == InitGetData /\ IdleReader /\ IdleRegistry /\ IdleZip /\ IdleRequest /\ IdleDecoder

\* One get_data(index) on a reader that holds decoded records.
SpecGetData == InitGetDataOnly /\ [][NextGetData]_vars

\* One lookup or selection in a registry built beforehand.
SpecLookup == InitLookupOnly /\ [][NextLookup]_vars

-----------------------------------------------------------------------------
(* Properties of the Reader                                                *)

DataOps == {"get_data", "get_next_data", "get_meta_data", "__enter__"}

\* C1: once close() has been called, get_data, get_next_data, get_meta_data
\* and __enter__ each fail with the closed-reader RuntimeError and return no
\* data, whatever was called before.
C1_ClosedReaderRaises ==
    (closed /\ last.op \in DataOps) =>
        (last.result = "RuntimeError" /\ ~last.value.has)

\* C2 as stated: whenever the with-block is left, normally or by an
\* exception of its body, the Reader is closed.
C2_ExitAlwaysCloses ==
    last.op = "__exit__" => closed

\* C2 amended: leaving the with-block normally marks the Reader closed;
\* leaving it by an exception of the body does not call close() and leaves
\* the closed flag and the cleanup-hook count as they were.
C2_ExitClosesUnlessException ==
    [][(scope = "in" /\ scope' = "out") =>
          IF last'.excValue = "None"
          THEN closed'
          ELSE closed' = closed /\ hookCalls' = hookCalls]_vars

\* A with-block that was left normally, with the Reader closed by it.
C2_Witness ==
    /\ last.op = "__exit__"
    /\ last.excValue = "None"
    /\ closed
    /\ hookCalls = 1

\* The items 0, 1, ..., k-1.
FirstItems(k) == [j \in 1..k |-> j - 1]

\* The generator yields the items in index order.
YieldsInOrder == it.yielded = FirstItems(Len(it.yielded))

\* C3 as stated: iteration yields get(0), get(1), ... in order; a failure
\* at an index before the last propagates after that many items; a failure
\* at the last index ends the iteration without propagating, after n-1
\* items and one warning.
C3_IterLastFailureSwallowed ==
    /\ YieldsInOrder
    /\ (it.state = "done" /\ it.openAtStart) =>
        CASE it.failedAt = -1 ->
                Len(it.yielded) = it.n /\ it.exc = "none" /\ it.warned = 0
          [] it.failedAt # -1 /\ it.failedAt < it.n - 1 ->
                Len(it.yielded) = it.failedAt /\ it.exc = it.failKind /\ it.warned = 0
          [] OTHER ->
                Len(it.yielded) = it.n - 1 /\ it.exc = "none" /\ it.warned = 1

\* C3 amended: as stated, except that a failure at the last index is
\* swallowed (one warning, no exception) only when it is an IndexError or a
\* CannotReadSpectraError; any other failure at the last index propagates
\* after n-1 items, without a warning.
C3_IterLastFailureSwallowedIfCaught ==
    /\ YieldsInOrder
    /\ (it.state = "done" /\ it.openAtStart) =>
        CASE it.failedAt = -1 ->
                Len(it.yielded) = it.n /\ it.exc = "none" /\ it.warned = 0
          [] it.failedAt # -1 /\ it.failedAt < it.n - 1 ->
                Len(it.yielded) = it.failedAt /\ it.exc = it.failKind /\ it.warned = 0
          [] it.failedAt = it.n - 1
               /\ it.failKind \in {"IndexError", "CannotReadSpectraError"} ->
                Len(it.yielded) = it.n - 1 /\ it.exc = "none" /\ it.warned = 1
          [] OTHER ->
                Len(it.yielded) = it.n - 1 /\ it.exc = it.failKind /\ it.warned = 0

\* The scenario of the specification: 3 items, item 2 fails to decode,
\* 2 items were yielded, one warning, no exception.
C3_Witness ==
    /\ it.state = "done"
    /\ it.openAtStart
    /\ it.n = 3
    /\ it.failedAt = 2
    /\ it.failKind = "CannotReadSpectraError"
    /\ it.yielded = <<0, 1>>
    /\ it.warned = 1
    /\ it.exc = "none"

-----------------------------------------------------------------------------
(* Properties of the registry                                              *)

\* The registered descriptors, in preference order, of which an extension
\* ends the lower-cased name of the file.
MatchingInPreference(file) ==
    SelectSeq(formats_sorted,
              LAMBDA f : \E k \in 1..Len(FormatObjs[f].extensions) :
                            EndsWith(Lower(file), FormatObjs[f].extensions[k]))

\* C4: select_for_read probes the extension-matching descriptors first, in
\* preference order; its result is the first of them whose can_read returns
\* true, and after a can_read has returned true no can_read is called.
C4_FirstMatchingReaderWins ==
    rlast.op = "search_read_format" =>
        LET m == MatchingInPreference(rlast.name.s)
            log == rlast.probes
            decided(k) == log[k].out \in {"True", "VersionError"}
        IN  /\ \A k \in 1..Len(log) :
                  /\ k <= Len(m) => log[k].id = m[k]
                  /\ decided(k) => k = Len(log)
                  /\ log[k].out = "True" => rlast.fmt = log[k].id
            /\ (\A k \in 1..Len(log) : k <= Len(m) => ~decided(k)) => Len(log) >= Len(m)
            /\ rlast.fmt # NoFormat => log # << >> /\ log[Len(log)].out = "True"

\* Two descriptors match the extension; the first one declines, the second
\* one accepts and is selected, and a third descriptor is never asked.
C4_Witness ==
    /\ rlast.op = "search_read_format"
    /\ Len(formats) = 3
    /\ Len(MatchingInPreference(rlast.name.s)) >= 2
    /\ Len(rlast.probes) = 2
    /\ rlast.probes[1].out = "False"
    /\ rlast.fmt = MatchingInPreference(rlast.name.s)[2]

NoTwoShareAName(seq) ==
    \A j, k \in 1..Len(seq) : j # k => NameOf(seq[j]) # NameOf(seq[k])

\* C5: after every add and set_preference call no two descriptors of the
\* base list, and no two of the preference view, share a name; a successful
\* add with overwrite of a name that is registered removes exactly the
\* descriptor that had this name, from both lists.
C5_NamesAreUnique ==
    [][/\ NoTwoShareAName(formats')
       /\ NoTwoShareAName(formats_sorted')
       /\ (rlast'.op = "add_format" /\ rlast'.exc = "none" /\ rlast'.overwrite
             /\ formats' # formats) =>
            LET new == rlast'.format.id
                others(seq) == SelectSeq(seq, LAMBDA f : NameOf(f) # NameOf(new))
            IN  /\ formats' = Append(others(formats), new)
                /\ formats_sorted' = Append(others(formats_sorted), new)]_vars

\* Must this add fail, by the three cases of the claim?
AddMustFail(arg, overwrite) ==
    \/ arg.t # "Format"
    \/ In(arg.id, formats)
    \/ /\ \E k \in 1..Len(formats) : NameOf(formats[k]) = NameOf(arg.id)
       /\ ~overwrite

\* Must this set_preference fail, by the two cases of the claim?
SortMustFail(names) ==
    \E k \in 1..Len(names) :
        \/ names[k].t # "str"
        \/ HasChar(names[k].s, ".")
        \/ HasChar(names[k].s, ",")

\* C6: add fails for a non-Format argument, for an instance that is already
\* registered and for a registered name without overwrite; set_preference
\* fails for a non-string name and for a name with '.' or ','; and a failing
\* call leaves the base list and the preference view exactly as they were.
C6_FailedMutationChangesNothing ==
    [][/\ (rlast'.op = "add_format" /\ AddMustFail(rlast'.format, rlast'.overwrite))
            => rlast'.exc # "none"
       /\ (rlast'.op = "sort" /\ SortMustFail(rlast'.names)) => rlast'.exc # "none"
       /\ rlast'.exc # "none" =>
            (formats' = formats /\ formats_sorted' = formats_sorted)]_vars

\* A set_preference call that failed on a registry whose preference view
\* differs from its base list.
C6_Witness ==
    /\ rlast.op = "sort"
    /\ rlast.exc = "ValueError"
    /\ formats_sorted # formats
    /\ Len(formats) = 3

\* The outcome of the selection that a lookup made, read off the log of its
\* can_read calls.
Selected(log) ==
    IF log # << >> /\ log[Len(log)].out = "True" THEN log[Len(log)].id ELSE NoFormat

SelectionFailed(log) == log # << >> /\ log[Len(log)].out = "VersionError"

\* The extension of s: from its last dot, unless only dots precede it.
ExtensionOf(s) ==
    LET dots == {k \in 1..Len(s) : s[k] = "."}
        dot == CHOOSE k \in dots : \A j \in dots : j <= k
    IN  IF \E k \in 1..(dot - 1) : s[k] # "." THEN SubSeq(s, dot, Len(s)) ELSE s

\* The first descriptor in preference order that has the extension ext.
FirstWithExtension(ext) ==
    LET has == {k \in 1..Len(formats_sorted) :
                   \E e \in 1..Len(FormatObjs[formats_sorted[k]].extensions) :
                      FormatObjs[formats_sorted[k]].extensions[e] = ext}
    IN  IF has = {} THEN NoFormat
        ELSE formats_sorted[CHOOSE k \in has : \A j \in has : k <= j]

\* The first descriptor in preference order whose name, or whose name up to
\* its last '-', is the upper-cased s.
FirstNamed(s, family) ==
    LET up == [k \in 1..Len(s) |-> UpperChar(s[k])]
        cut(n) == IF family /\ \E k \in 1..Len(n) : n[k] = "-"
                  THEN SubSeq(n, 1, (CHOOSE k \in 1..Len(n) :
                                        n[k] = "-" /\ \A j \in (k + 1)..Len(n) : n[j] # "-") - 1)
                  ELSE n
        has == {k \in 1..Len(formats_sorted) : cut(NameOf(formats_sorted[k])) = up}
    IN  IF has = {} THEN NoFormat
        ELSE formats_sorted[CHOOSE k \in has : \A j \in has : k <= j]

Found(f) == rlast.exc = "none" /\ rlast.fmt = f

NotFound == rlast.exc = "IndexError" /\ rlast.fmt = NoFormat

FoundOrNotFound(f) == IF f # NoFormat THEN Found(f) ELSE NotFound

\* C7 as stated: a lookup of a non-empty string s is resolved (a) by
\* select_for_read alone if s is an existing file; (b) otherwise, if s has a
\* dot, by the first descriptor in preference order that has the extension
\* of s; (c) otherwise by name, then by family name, then by the extension
\* '.'+s; with a not-found error when the strategy yields no descriptor.
C7_LookupOrder ==
    (rlast.op = "__getitem__" /\ rlast.name.t = "str" /\ rlast.name.s # << >>) =>
        LET s == rlast.name.s
            low == [k \in 1..Len(s) |-> LowerChar(s[k])]
        IN  IF s \in ExistingFiles
            THEN IF SelectionFailed(rlast.probes) THEN rlast.exc = "VersionError"
                 ELSE FoundOrNotFound(Selected(rlast.probes))
            ELSE IF \E k \in 1..Len(s) : s[k] = "."
            THEN FoundOrNotFound(FirstWithExtension(ExtensionOf(low)))
            ELSE IF FirstNamed(s, FALSE) # NoFormat THEN Found(FirstNamed(s, FALSE))
            ELSE IF FirstNamed(s, TRUE) # NoFormat THEN Found(FirstNamed(s, TRUE))
            ELSE FoundOrNotFound(FirstWithExtension(<<".">> \o low))

\* (a) and (b) of the amended C7, for the string s with lower-cased form low.
PathThenExtension(s, low) ==
    IF s \in ExistingFiles /\ SelectionFailed(rlast.probes) THEN rlast.exc = "VersionError"
    ELSE IF s \in ExistingFiles /\ Selected(rlast.probes) # NoFormat
    THEN Found(Selected(rlast.probes))
    ELSE FoundOrNotFound(FirstWithExtension(ExtensionOf(low)))

\* C7 amended: (a) if s is an existing file and select_for_read yields a
\* descriptor, that descriptor (a VersionError of the selection propagates);
\* otherwise, also when s is an existing file for which the selection yields
\* none: (b) if s has a dot, the first descriptor in preference order that
\* has the extension of s, or a not-found error; (c) if s has no dot, the
\* descriptor named s, else the first one whose family name is s, else the
\* outcome of the lookup of '.'+lowercase(s) by (a) and (b).
C7_LookupOrderWithFallThrough ==
    (rlast.op = "__getitem__" /\ rlast.name.t = "str" /\ rlast.name.s # << >>) =>
        LET s == rlast.name.s
            low == [k \in 1..Len(s) |-> LowerChar(s[k])]
        IN  IF s \in ExistingFiles /\ SelectionFailed(rlast.probes)
            THEN rlast.exc = "VersionError"
            ELSE IF s \in ExistingFiles /\ Selected(rlast.probes) # NoFormat
            THEN Found(Selected(rlast.probes))
            ELSE IF \E k \in 1..Len(s) : s[k] = "."
            THEN FoundOrNotFound(FirstWithExtension(ExtensionOf(low)))
            ELSE IF FirstNamed(s, FALSE) # NoFormat THEN Found(FirstNamed(s, FALSE))
            ELSE IF FirstNamed(s, TRUE) # NoFormat THEN Found(FirstNamed(s, TRUE))
            ELSE PathThenExtension(<<".">> \o low, <<".">> \o low)

\* A lookup of an existing file that no descriptor can read, resolved by
\* the extension of the file name.
C7_Witness ==
    /\ rlast.op = "__getitem__"
    /\ rlast.name.s = <<"a", ".", "a">>
    /\ rlast.probes # << >>
    /\ \A k \in 1..Len(rlast.probes) : rlast.probes[k].out = "False"
    /\ rlast.exc = "none"
    /\ rlast.fmt = FirstWithExtension(<<".", "a">>)
    /\ Len(formats) >= 2

\* ---- properties of _zip_spectrum ----

Zipped == zout.kind # "pending"

AllSingle == \A k \in 1..Len(zin) : zin[k].cls = "Spectrum"

\* Is every coordinate of axis a within tol of the same coordinate of axis b,
\* by the absolute difference alone?
WithinTol(a, b, tol) ==
    /\ a.shape = b.shape
    /\ \A k \in 1..Len(a.flat) : Abs(a.flat[k] - b.flat[k]) <= tol

\* C8: two or more single records whose axes have the shape of the first
\* one's and are elementwise within the tolerance of it are merged into one
\* record: one row of amplitudes per input in input order, the axis of the
\* first input, and the tuple of the inputs' metadata in input order.
C8_MergedRecord ==
    (/\ Zipped
     /\ AllSingle
     /\ \A k \in 1..Len(zin) : WithinTol(zin[k].wavelength, zin[1].wavelength, ztol))
    => /\ zout.kind = "Spectrum"
       /\ zout.obj.spectrum.shape[1] = Len(zin)
       /\ zout.obj.spectrum.flat = ConcatFlat([k \in 1..Len(zin) |-> zin[k].spectrum])
       /\ zout.obj.wavelength = zin[1].wavelength
       /\ zout.obj.meta = TupleOf([k \in 1..Len(zin) |-> zin[k].meta])

\* C9: two single records with axes of equal length are merged when every
\* absolute difference of their coordinates is at most the tolerance, and
\* come back as the unmerged list of two when some difference exceeds it,
\* whatever the magnitude of the coordinates.
C9_ToleranceIsAbsolute ==
    (/\ Zipped
     /\ AllSingle
     /\ Len(zin) = 2
     /\ zin[1].wavelength.shape = zin[2].wavelength.shape)
    => IF WithinTol(zin[2].wavelength, zin[1].wavelength, ztol)
       THEN zout.kind = "Spectrum"
       ELSE zout = ZipReturn("list", List(zin))

\* C10: for two or more single records the reconciliation never raises, and
\* when the shapes of their axes differ it returns the list it was given.
C10_NeverRaises ==
    (Zipped /\ AllSingle)
    => /\ zout.kind # "raise"
       /\ (\E k \in 1..Len(zin) : zin[k].wavelength.shape # zin[1].wavelength.shape)
          => zout = ZipReturn("list", List(zin))

\* What one input contributes to the flat list: its records if it is a list,
\* itself if it is not.
Contribution(e) == IF e.cls = "list" THEN e.items ELSE <<e>>

\* The number of records that the inputs before input k contribute.
RECURSIVE Offset(_)
Offset(k) == IF k = 1 THEN 0 ELSE Offset(k - 1) + Len(Contribution(zin[k - 1]))

HasList == \E k \in 1..Len(zin) : zin[k].cls = "list"

\* C11: when at least one input is a list, the call returns a flat list in
\* which the records of each list and each other input follow each other in
\* input order, as many as the lists hold plus the inputs that are no lists;
\* nothing is merged and the inputs stay as they were.
C11_FlattenOneLevel ==
    [][(zout.kind = "pending" /\ zout'.kind # "pending" /\ HasList)
       => /\ zin' = zin
          /\ zout'.kind = "list"
          /\ zout'.exc = "none"
          /\ Len(zout'.obj.items) = Offset(Len(zin)) + Len(Contribution(zin[Len(zin)]))
          /\ \A k \in 1..Len(zin) : \A j \in 1..Len(Contribution(zin[k])) :
                zout'.obj.items[Offset(k) + j] = Contribution(zin[k])[j]]_vars

\* A list of two records and a single record, flattened into three or more.
C11_Witness ==
    /\ Zipped
    /\ \E k \in 1..Len(zin) : zin[k].cls = "list" /\ Len(zin[k].items) >= 2
    /\ \E k \in 1..Len(zin) : zin[k].cls = "Spectrum"
    /\ zout.kind = "list"
    /\ Len(zout.obj.items) >= 3

\* C12: on a single record r the call returns a record with the amplitudes
\* and the axis of r and the 1-tuple of the meta data of r.
C12_SingleInput ==
    (Zipped /\ Len(zin) = 1 /\ zin[1].cls = "Spectrum")
    => /\ zout.kind = "Spectrum"
       /\ zout.obj.spectrum.flat = zin[1].spectrum.flat
       /\ zout.obj.wavelength = zin[1].wavelength
       /\ zout.obj.meta = TupleOf(<<zin[1].meta>>)

\* ---- properties of get_reader and specread ----

Called == call.fn # "none"

\* Does the uri, or one uri of the list, name no existing file?
NamesMissingFile ==
    IF call.uri.t = "list"
    THEN \E k \in 1..Len(call.uri.items) : ~Exists(call.uri.items[k].s)
    ELSE ~Exists(call.uri.s)

\* C13: get_reader and specread fail with the IOError 'No such file' when
\* the uri, or one uri of the list, names no existing file; that error is
\* not the one of a format that is not found or of an unknown format name.
C13_NoSuchFile ==
    (/\ Called
     /\ NamesMissingFile
     /\ call.fn = "get_reader" => call.uri.t = "str")
    => /\ call.out.kind = "raise"
       /\ call.out.exc = "IOError"
       /\ call.out.msg = "No such file"

\* ---- properties of Request ----

\* The first n bytes of the resource, fewer when it is shorter.
FirstOfResource(n) == SubSeq(files.content, 1, Min(n, Len(files.content)))

\* C14: firstbytes returns the first N bytes of the resource, for a file
\* name and for a file object of the caller at any read position, and leaves
\* the stream that get_file() returns at the read position it had before.
C14_FirstBytesKeepsPosition ==
    qlast.op = "firstbytes"
    => /\ qlast.exc = "none"
       /\ qlast.bytes = Bytes(FirstOfResource(FirstBytesN))
       /\ StreamPos(request, files) = qlast.before

\* A peek has read from a file object of the caller that cannot seek.
PeekedWithoutSeek ==
    /\ request.uri_type = "URI_FILE"
    /\ ~files.objs[1].seekable
    /\ ~request.firstbytes.isNone

\* C15: once a peek has read from a stream that cannot be repositioned, each
\* get_file() fails with the seek error; it hands out neither the stream nor
\* None.
C15_GetFileFailsAfterLostSeek ==
    (qlast.op = "get_file" /\ PeekedWithoutSeek) => qlast.exc = "IOError"

OpenFilesOf(owner) ==
    {k \in 1..Len(files.objs) : files.objs[k].owner = owner /\ ~files.objs[k].closed}

\* C16: the Request holds at most one open file object of its own at any
\* time, after finish() none of those it opened is open, and the file object
\* of the caller is never closed.
C16_HandlesReleased ==
    /\ Cardinality(OpenFilesOf("request")) <= 1
    /\ qlast.op = "finish" => OpenFilesOf("request") = {}
    /\ \A k \in 1..Len(files.objs) : files.objs[k].owner = "caller" => ~files.objs[k].closed

\* ---- properties of the construction of a Spectrum ----

Constructed == call.fn = "Spectrum" /\ call.out.exc = "none"

Ndim(a) == Len(a.shape)

LastDim(a) == a.shape[Len(a.shape)]

\* The amplitudes have 1 or 2 dimensions and the axis is as long as their
\* last dimension.
AxisFitsLastDim(spectrum, wavelength) ==
    /\ IsArray(spectrum) /\ IsArray(wavelength)
    /\ Ndim(spectrum) \in {1, 2}
    /\ Ndim(wavelength) >= 1
    /\ wavelength.shape[1] = LastDim(spectrum)

AxisFitsAmplitudes(spectrum, wavelength) ==
    /\ IsArray(spectrum) /\ IsArray(wavelength)
    /\ Ndim(spectrum) \in {1, 2}
    /\ \/ Ndim(wavelength) = 1 /\ wavelength.shape[1] = LastDim(spectrum)
       \/ Ndim(wavelength) = 2 /\ wavelength.shape = spectrum.shape

C18_IndexOutOfRange ==
    (/\ call.fn = "get_data"
     /\ ~call.index.isNone
     /\ (call.index.v < 0 \/ call.index.v >= call.length))
    => call.out.result = "IndexError"

\* ---- properties of the cursor of the Reader ----

\* C19: get_next_data() does what get_data(c + 1) does, c being the cursor
\* left by the operations before it: it returns item c + 1 or fails the way
\* get_data fails, also after get_data(None), failed get_data calls,
\* get_meta_data and iteration.
C19_GetNextFollowsCursor ==
    last.op = "get_next_data" =>
        /\ last.result \in GetDataOutcomes \cup {"RuntimeError"}
        /\ last.result = "ok" =>
              (~last.arg.isNone /\ last.value = Data(Idx(last.arg.v + 1)))

\* ---- properties of a failing signature check ----

\* C20: when a can_read call of search_read_format raises VersionError, the
\* call raises that VersionError and returns no descriptor, and the failing
\* can_read is the last one made; the call raises VersionError in no other
\* case.
C20_VersionErrorPropagates ==
    rlast.op = "search_read_format" =>
        LET log == rlast.probes IN
        /\ \A k \in 1..Len(log) :
              log[k].out = "VersionError" =>
                  /\ rlast.exc = "VersionError"
                  /\ rlast.fmt = NoFormat
                  /\ k = Len(log)
        /\ rlast.exc = "VersionError" =>
              (log # << >> /\ log[Len(log)].out = "VersionError")

\* Three descriptors are registered; the first one probed declines, the
\* second one raises VersionError, and the third one is never asked.
C20_Witness ==
    /\ rlast.op = "search_read_format"
    /\ Len(formats) = 3
    /\ Len(rlast.probes) = 2
    /\ rlast.probes[1].out = "False"
    /\ rlast.probes[2].out = "VersionError"
    /\ rlast.exc = "VersionError"

\* ---- properties of close() ----

\* C21: whatever the number of close() calls, the cleanup hook _close and
\* the teardown of the request have each run exactly once as soon as the
\* Reader is closed, and no close() call raises.
C21_CleanupAndTeardownOnce ==
    /\ closed => (hookCalls = 1 /\ finishCalls = 1)
    /\ last.op = "close" => last.result = "ok"

\* C30: a close() call on a Reader that is already marked closed leaves the
\* teardown of the request executed, by an earlier close() or by itself,
\* whether the cleanup hook returned or raised.
C30_ClosedMeansTornDown ==
    [][(closed /\ last'.op = "close") => finishCalls' >= 1]_vars

\* ---- properties of sort ----

\* How the format f matches the name n: 0 for an equal name, 1 for a name
\* that ends with n, 2 for no match.
Rank(f, n) ==
    IF NameOf(f) = n THEN 0 ELSE IF EndsWith(NameOf(f), n) THEN 1 ELSE 2

\* The comparison of the formats a and b by their matches with the names, the
\* first name counting most: -1, 0 or 1.
RECURSIVE Compare(_, _, _)
Compare(a, b, names) ==
    IF names = << >> THEN 0
    ELSE IF Rank(a, Head(names)) < Rank(b, Head(names)) THEN -1
    ELSE IF Rank(a, Head(names)) > Rank(b, Head(names)) THEN 1
    ELSE Compare(a, b, Tail(names))

PlaceIn(seq, x) == CHOOSE k \in 1..Len(seq) : seq[k] = x

\* view holds the formats of base, ordered by their matches with the names
\* and, among equal matches, as in base.
SortedBy(view, base, names) ==
    /\ Len(view) = Len(base)
    /\ \A k \in 1..Len(base) : In(base[k], view)
    /\ \A i, j \in 1..Len(view) :
          i < j =>
             \/ Compare(view[i], view[j], names) = -1
             \/ /\ Compare(view[i], view[j], names) = 0
                /\ PlaceIn(base, view[i]) < PlaceIn(base, view[j])

\* C22 as stated: after a successful sort(n1, ..., nk) the sorted view is
\* the registration-order list ordered by the match with n1, then n2, and so
\* on, ties in registration order, the names compared without regard to case;
\* an earlier sort leaves no trace and sort() restores the registration order.
C22_PreferenceOrder ==
    (rlast.op = "sort" /\ rlast.exc = "none") =>
        SortedBy(formats_sorted, formats,
                 [k \in 1..Len(rlast.names) |-> Upper(rlast.names[k].s)])

\* C22 amended: the same, each name being stripped of the blanks around it
\* before it is compared without regard to case.
C22_PreferenceOrderStripped ==
    (rlast.op = "sort" /\ rlast.exc = "none") =>
        SortedBy(formats_sorted, formats,
                 [k \in 1..Len(rlast.names) |-> Upper(Strip(rlast.names[k].s, {" "}))])

\* A sort with two names: two formats match the first name equally, the
\* second name puts the one registered later first.
C22_Witness ==
    /\ rlast.op = "sort"
    /\ rlast.exc = "none"
    /\ Len(rlast.names) = 2
    /\ \E i, j \in 1..Len(formats_sorted) :
          LET n1 == Upper(Strip(rlast.names[1].s, {" "}))
              n2 == Upper(Strip(rlast.names[2].s, {" "}))
          IN  /\ i < j
              /\ Rank(formats_sorted[i], n1) = Rank(formats_sorted[j], n1)
              /\ Rank(formats_sorted[i], n2) < Rank(formats_sorted[j], n2)
              /\ PlaceIn(formats, formats_sorted[i]) > PlaceIn(formats, formats_sorted[j])

\* ---- properties of the second pass of search_read_format ----

\* The can_read calls of one search_read_format: the formats that match the
\* extension are asked first, the formats of `others` after them and only
\* when all of the first have declined; no format is asked twice; the first
\* format that accepts is returned, and None when all have declined.
TwoPasses(matching, others) ==
    LET log == rlast.probes
        plan == matching \o others
    IN  /\ Len(log) <= Len(plan)
        /\ \A k \in 1..Len(log) : log[k].id = plan[k]
        /\ \A j, k \in 1..Len(log) : j # k => log[j].id # log[k].id
        /\ \A k \in 1..Len(log) :
              k > Len(matching) => \A j \in 1..Len(matching) : log[j].out = "False"
        /\ \A k \in 1..Len(log) : log[k].out = "True" => rlast.fmt = log[k].id
        /\ (rlast.fmt = NoFormat /\ rlast.exc = "none") =>
              (Len(log) = Len(plan) /\ \A k \in 1..Len(log) : log[k].out = "False")

\* C23 as stated: the second pass asks the formats not yet asked in the order
\* of their registration.
C23_FallbackInRegistrationOrder ==
    rlast.op = "search_read_format" =>
        LET m == MatchingInPreference(rlast.name.s) IN
        TwoPasses(m, SelectSeq(formats, LAMBDA f : ~In(f, m)))

\* C23 amended: the second pass asks the formats not yet asked in the order
\* of the sorted view, as the first pass does.
C23_FallbackInPreferenceOrder ==
    rlast.op = "search_read_format" =>
        LET m == MatchingInPreference(rlast.name.s) IN
        TwoPasses(m, SelectSeq(formats_sorted, LAMBDA f : ~In(f, m)))

\* The format that matches the extension declines; the two others, which
\* the sort has put in the reverse of their registration order, are asked
\* after it and decline too.
C23_Witness ==
    /\ rlast.op = "search_read_format"
    /\ Len(MatchingInPreference(rlast.name.s)) = 1
    /\ Len(rlast.probes) = 3
    /\ rlast.fmt = NoFormat
    /\ rlast.exc = "none"
    /\ PlaceIn(formats, rlast.probes[2].id) > PlaceIn(formats, rlast.probes[3].id)

\* ---- properties of get_meta_data(index) ----

\* C24: on a reader that holds a Spectrum, get_meta_data(None) returns the
\* meta data of the Spectrum; get_meta_data(i) returns entry i of meta data
\* stored as a tuple, and the whole meta data when they are one dict.
C24_MetaDataByIndex ==
    (/\ call.fn = "get_meta_data"
     /\ call.reader = "Format.Reader"
     /\ call.data.cls = "Spectrum") =>
        LET meta == call.data.meta
            i == call.index.v
        IN  /\ call.index.isNone =>
                  (call.out.result = "ok" /\ call.out.meta = meta)
            /\ (~call.index.isNone /\ meta.t = "tuple" /\ 0 <= i /\ i < Len(meta.items)) =>
                  (call.out.result = "ok" /\ call.out.meta = meta.items[i + 1])
            /\ (~call.index.isNone /\ meta.t = "dict") =>
                  (call.out.result = "ok" /\ call.out.meta = meta)

\* ---- properties of iteration on a closed Reader ----

\* C27: once close() has been called, advancing an iterator of the Reader
\* yields no record, whether iter_data() was called before or after close()
\* and however the advances and the close() are interleaved.
C27_NoRecordAfterClose ==
    (closed /\ last.op = "next") => ~last.value.has

\* ---- properties of the two lists of the registry ----

\* The can_read answers with which the format f alone accepts.
OnlyAccepts(f) == [g \in FormatIds |-> IF g = f THEN "True" ELSE "False"]

\* C28: after every add_format and sort call the sorted view holds exactly
\* the formats of the base list, each once, so that len() counts what the
\* iteration yields; and every registered format is returned by
\* search_read_format, and by a lookup of an existing file, when it is the
\* one that accepts the file.
C28_ViewIsPermutation ==
    /\ Len(formats_sorted) = Len(formats)
    /\ \A j, k \in 1..Len(formats_sorted) :
          j # k => formats_sorted[j] # formats_sorted[k]
    /\ \A k \in 1..Len(formats) :
          /\ In(formats[k], formats_sorted)
          /\ SearchReadFormat(formats_sorted, AbsPath(<<"b">>),
                              OnlyAccepts(formats[k])).result = formats[k]
          /\ GetItem(formats_sorted, PyStr(<<"b">>),
                     OnlyAccepts(formats[k]), << >>).fmt = formats[k]

\* An add with overwrite has replaced a format in a registry of three
\* formats whose sorted view is not in registration order.
C28_Witness ==
    /\ rlast.op = "add_format"
    /\ rlast.overwrite
    /\ rlast.exc = "none"
    /\ Len(formats) = 3
    /\ formats_sorted # formats
    /\ formats[3] = rlast.format.id
    /\ formats_sorted[3] = rlast.format.id

\* ---- the walks over the blocks of a file ----

\* Where the next block of the walk starts.
CursorOf(d) == IF d.fn = "_read_fsm" THEN d.start_byte + d.n_bytes ELSE d.start_byte

\* The six bytes of the block at the cursor of the walk.
InfoAtCursor(d) ==
    BlockInfo(PySlice(d.content, CursorOf(d), CursorOf(d) + BlockInfoLen))

\* The walk of fn is about to read, for the first time from this position,
\* a block whose id is not a key of the FUNC_DECODE of its module.
AtUnknownBlock(fn) ==
    /\ dec.fn = fn
    /\ dec.pc = "blocks"
    /\ CursorOf(dec) < Len(dec.content)
    /\ (IF fn = "_read_fsm" THEN <<dec.start_byte, dec.n_bytes>> ELSE dec.start_byte)
          \notin dec.seen
    /\ InfoAtCursor(dec).exc = "none"
    /\ InfoAtCursor(dec).id
          \notin (IF fn = "_read_fsm" THEN FsmFuncDecode ELSE SpFuncDecode)

\* The iteration has raised nothing, has added nothing to the metadata or
\* to the amplitudes, and the next block starts after the declared size.
Skipped ==
    /\ dec'.pc = "blocks"
    /\ dec'.exc = "none"
    /\ dec'.meta = dec.meta
    /\ dec'.spectrum = dec.spectrum
    /\ CursorOf(dec') = CursorOf(dec) + BlockInfoLen + InfoAtCursor(dec).size

\* C25: in the walk of _read_fsm and in the walk of _read_sp, a block whose
\* block_id has no decode function is skipped without error: it adds
\* nothing to the metadata or to the amplitudes, the cursor moves past its
\* declared size and the walk goes on with the next block.
C25_UnknownBlockSkipped ==
    [][/\ AtUnknownBlock("_read_fsm") => Skipped
       /\ AtUnknownBlock("_read_sp") => Skipped]_vars

\* ---- the pending offsets of _read_sp ----

\* The expressions of _read_sp that read NBP.
StackReads == {"NBP = NBP[-1]", "NBP[-1]", "NBP[1]"}

\* The offsets left after the levels at or before the cursor are popped.
RECURSIVE PopWhile(_, _)
PopWhile(stack, cursor) ==
    IF stack # << >> /\ cursor >= stack[Len(stack)]
    THEN PopWhile(SubSeq(stack, 1, Len(stack) - 1), cursor)
    ELSE stack

\* The traversal is about to read, for the first time in this
\* configuration, a marker of a same-level continuation.
AtMarker ==
    /\ dec.fn = "_read_sp"
    /\ dec.pc = "pointers"
    /\ SpPointerLoop(dec)
    /\ <<dec.start_byte, dec.block_id, dec.NBP>> \notin dec.seen
    /\ dec.content[dec.start_byte + 2] = TagByte

\* C26: in the pointer traversal of _read_sp, at a marker of a same-level
\* continuation the cursor becomes the offset pushed last, that offset is
\* popped, and further offsets are popped while the cursor is at or beyond
\* the new top; and for every file NBP stays a stack of offsets that is
\* never read when it is empty nor at a position it does not have.
C26_PendingOffsetsAreAStack ==
    [][/\ AtMarker =>
             /\ dec'.exc = "none"
             /\ dec'.start_byte = dec.NBP[Len(dec.NBP)]
             /\ dec'.NBP = PopWhile(SubSeq(dec.NBP, 1, Len(dec.NBP) - 1),
                                    dec.NBP[Len(dec.NBP)])
       /\ dec'.site \notin StackReads]_vars

\* C29: for every file each loop of the decoders ends, with a result or
\* with an exception: the walk of _read_fsm, the pointer traversal and the
\* walk of _read_sp and the scan of _decode_5104 never come back to a
\* configuration of their loop condition, also when a declared block_size
\* or text size is zero or negative.
C29_DecoderLoopsEnd == dec.pc # "hang"

====
